---- MODULE Spec2Model ----
(***************************************************************************)
(* Model of webfigchecker (src/src/main.rs): the port-set builder, the     *)
(* IPv4 range expander, the WebFig detector (check_webfig and              *)
(* extract_product) and the semaphore-bounded probe scheduler of main.     *)
(*                                                                         *)
(* A buffer is the sequence of its bytes and a String the sequence of its   *)
(* Unicode scalar values, so decoding, parsing, lower-casing and pattern   *)
(* matching are computed byte by byte and character by character.          *)
(***************************************************************************)
EXTENDS Integers, Sequences, FiniteSets, TLC

VARIABLES
    \* ---- main / scheduler (main.rs 108-125) ----
    concurrency,  \* args.concurrency
    targets,      \* Vec<IpAddr> handed to the spawn loop
    portset,      \* Vec<u16> returned by build_portset
    mainPc,       \* "start" | "fetch" | "failed" | "spawn" | "join" | "done"
    si, sj,       \* positions of the two nested for loops
    tasks,        \* Vec<JoinHandle>: the (ip, port) of every spawned task
    joinIdx,      \* position of `for t in tasks { t.await }`
    permits,      \* free permits of the semaphore
    upc,          \* per task: "acquire" | "connect" | "write" | "read" | "done"
                  \* (the await the task is suspended at)
    ulog,         \* per task: what the network did to it (observation)
    uret,         \* per task: value returned by check_webfig, <<>> before
    probes,       \* per task: number of check_webfig calls made
    output,       \* lines printed on stdout, in order
    \* ---- one check_webfig call in isolation ----
    qpc, qport, qresp, qlog, qbuf, qret, qattempts,
    \* ---- build_portset in isolation ----
    bpc, bargs, bret,
    \* ---- expand_ipv4_range in isolation ----
    rpc, rspec, rchecks, rcap, rstart, rend, ra, rv, rstatus,
    \* ---- expand_prefixes in isolation ----
    epc, eprefixes, eper, eall, eret,
    \* ---- main from its arguments (main.rs 76-106) ----
    margs

schedVars == <<concurrency, targets, portset, mainPc, si, sj, tasks, joinIdx,
               permits, upc, ulog, uret, probes, output>>
probeVars == <<qpc, qport, qresp, qlog, qbuf, qret, qattempts>>
portVars  == <<bpc, bargs, bret>>
rangeVars == <<rpc, rspec, rchecks, rcap, rstart, rend, ra, rv, rstatus>>
expandVars == <<epc, eprefixes, eper, eall, eret>>
setupVars == <<margs>>
vars == <<schedVars, probeVars, portVars, rangeVars, expandVars, setupVars>>

(***************************************************************************)
(* Bounds of the model.                                                    *)
(***************************************************************************)
MaxUnits == 3      \* at most this many (ip, port) tasks in a scheduler run
MaxC == 2          \* concurrency limits 0..MaxC are explored
MaxBodyToks == 3   \* tokens in the body of an enumerated response
MaxPortToks == 3   \* tokens in an enumerated --ports string
MaxSpan == 3       \* widest port range lo-hi in an enumerated --ports string
MaxWalk == 300     \* most addresses the Vec of a range walk has room for
MaxRead == 80      \* bytes of a first read that is cut short of the buffer size
MaxPrefixes == 2   \* prefixes in an enumerated prefix list
MaxPer == 3        \* --per-prefix values 0..MaxPer are explored

(***************************************************************************)
(* Text.  A String is the sequence of its Unicode scalar values, a buffer  *)
(* the sequence of its bytes; both are sequences of numbers.               *)
(***************************************************************************)
RECURSIVE Flatten(_)
Flatten(toks) ==
    IF toks = <<>> THEN <<>> ELSE Head(toks) \o Flatten(Tail(toks))

Min(S) == CHOOSE x \in S : \A y \in S : x <= y
Max(S) == CHOOSE x \in S : \A y \in S : x >= y

\* the printable ASCII characters U+0020..U+005F and U+0061..U+007E, in order
\* (U+0060 cannot be written in a string of this language)
PrintableLow ==
    " !\"#$%&'()*+,-./0123456789:;<=>?@ABCDEFGHIJKLMNOPQRSTUVWXYZ[\\]^_"
PrintableHigh == "abcdefghijklmnopqrstuvwxyz{|}~"

\* the code point of a printable ASCII character
Code(ch) ==
    IF \E i \in 1..Len(PrintableLow) : SubSeq(PrintableLow, i, i) = ch
    THEN 31 + CHOOSE i \in 1..Len(PrintableLow) : SubSeq(PrintableLow, i, i) = ch
    ELSE 96 + CHOOSE i \in 1..Len(PrintableHigh) : SubSeq(PrintableHigh, i, i) = ch

\* the code points of a literal of printable ASCII characters
Str(s) == [i \in 1..Len(s) |-> Code(SubSeq(s, i, i))]

Dot == Code(".")
Dash == Code("-")
Comma == Code(",")
Colon == Code(":")
Plus == Code("+")
Zero == Code("0")
LetterV == Code("v")
LetterX == Code("x")
HT == 9
LF == 10
FF == 12
CR == 13
Replacement == 65533      \* U+FFFD

InRanges(c, T) == \E k \in 1..Len(T) : c >= T[k][1] /\ c <= T[k][2]

\* char::to_lowercase above U+007F, one rule <<first, last, step, delta>> for
\* the code points first, first + step, .. last, each mapped to itself + delta
\* (Unicode 17.0, the tables of std in rustc 1.95; U+0130, the one code point
\* with two, is in ExpandDottedI below)
LowerRules ==
    <<
    <<192,214,1,32>>, <<216,222,1,32>>, <<256,302,2,1>>, <<306,310,2,1>>,
    <<313,327,2,1>>, <<330,374,2,1>>, <<376,376,1,-121>>, <<377,381,2,1>>,
    <<385,385,1,210>>, <<386,388,2,1>>, <<390,390,1,206>>, <<391,391,1,1>>,
    <<393,394,1,205>>, <<395,395,1,1>>, <<398,398,1,79>>, <<399,399,1,202>>,
    <<400,400,1,203>>, <<401,401,1,1>>, <<403,403,1,205>>, <<404,404,1,207>>,
    <<406,406,1,211>>, <<407,407,1,209>>, <<408,408,1,1>>, <<412,412,1,211>>,
    <<413,413,1,213>>, <<415,415,1,214>>, <<416,420,2,1>>, <<422,422,1,218>>,
    <<423,423,1,1>>, <<425,425,1,218>>, <<428,428,1,1>>, <<430,430,1,218>>,
    <<431,431,1,1>>, <<433,434,1,217>>, <<435,437,2,1>>, <<439,439,1,219>>,
    <<440,440,1,1>>, <<444,444,1,1>>, <<452,452,1,2>>, <<453,453,1,1>>,
    <<455,455,1,2>>, <<456,456,1,1>>, <<458,458,1,2>>, <<459,475,2,1>>,
    <<478,494,2,1>>, <<497,497,1,2>>, <<498,500,2,1>>, <<502,502,1,-97>>,
    <<503,503,1,-56>>, <<504,542,2,1>>, <<544,544,1,-130>>, <<546,562,2,1>>,
    <<570,570,1,10795>>, <<571,571,1,1>>, <<573,573,1,-163>>,
    <<574,574,1,10792>>, <<577,577,1,1>>, <<579,579,1,-195>>,
    <<580,580,1,69>>, <<581,581,1,71>>, <<582,590,2,1>>, <<880,882,2,1>>,
    <<886,886,1,1>>, <<895,895,1,116>>, <<902,902,1,38>>, <<904,906,1,37>>,
    <<908,908,1,64>>, <<910,911,1,63>>, <<913,929,1,32>>, <<931,939,1,32>>,
    <<975,975,1,8>>, <<984,1006,2,1>>, <<1012,1012,1,-60>>, <<1015,1015,1,1>>,
    <<1017,1017,1,-7>>, <<1018,1018,1,1>>, <<1021,1023,1,-130>>,
    <<1024,1039,1,80>>, <<1040,1071,1,32>>, <<1120,1152,2,1>>,
    <<1162,1214,2,1>>, <<1216,1216,1,15>>, <<1217,1229,2,1>>,
    <<1232,1326,2,1>>, <<1329,1366,1,48>>, <<4256,4293,1,7264>>,
    <<4295,4295,1,7264>>, <<4301,4301,1,7264>>, <<5024,5103,1,38864>>,
    <<5104,5109,1,8>>, <<7305,7305,1,1>>, <<7312,7354,1,-3008>>,
    <<7357,7359,1,-3008>>, <<7680,7828,2,1>>, <<7838,7838,1,-7615>>,
    <<7840,7934,2,1>>, <<7944,7951,1,-8>>, <<7960,7965,1,-8>>,
    <<7976,7983,1,-8>>, <<7992,7999,1,-8>>, <<8008,8013,1,-8>>,
    <<8025,8031,2,-8>>, <<8040,8047,1,-8>>, <<8072,8079,1,-8>>,
    <<8088,8095,1,-8>>, <<8104,8111,1,-8>>, <<8120,8121,1,-8>>,
    <<8122,8123,1,-74>>, <<8124,8124,1,-9>>, <<8136,8139,1,-86>>,
    <<8140,8140,1,-9>>, <<8152,8153,1,-8>>, <<8154,8155,1,-100>>,
    <<8168,8169,1,-8>>, <<8170,8171,1,-112>>, <<8172,8172,1,-7>>,
    <<8184,8185,1,-128>>, <<8186,8187,1,-126>>, <<8188,8188,1,-9>>,
    <<8486,8486,1,-7517>>, <<8490,8490,1,-8383>>, <<8491,8491,1,-8262>>,
    <<8498,8498,1,28>>, <<8544,8559,1,16>>, <<8579,8579,1,1>>,
    <<9398,9423,1,26>>, <<11264,11311,1,48>>, <<11360,11360,1,1>>,
    <<11362,11362,1,-10743>>, <<11363,11363,1,-3814>>,
    <<11364,11364,1,-10727>>, <<11367,11371,2,1>>, <<11373,11373,1,-10780>>,
    <<11374,11374,1,-10749>>, <<11375,11375,1,-10783>>,
    <<11376,11376,1,-10782>>, <<11378,11378,1,1>>, <<11381,11381,1,1>>,
    <<11390,11391,1,-10815>>, <<11392,11490,2,1>>, <<11499,11501,2,1>>,
    <<11506,11506,1,1>>, <<42560,42604,2,1>>, <<42624,42650,2,1>>,
    <<42786,42798,2,1>>, <<42802,42862,2,1>>, <<42873,42875,2,1>>,
    <<42877,42877,1,-35332>>, <<42878,42886,2,1>>, <<42891,42891,1,1>>,
    <<42893,42893,1,-42280>>, <<42896,42898,2,1>>, <<42902,42920,2,1>>,
    <<42922,42922,1,-42308>>, <<42923,42923,1,-42319>>,
    <<42924,42924,1,-42315>>, <<42925,42925,1,-42305>>,
    <<42926,42926,1,-42308>>, <<42928,42928,1,-42258>>,
    <<42929,42929,1,-42282>>, <<42930,42930,1,-42261>>, <<42931,42931,1,928>>,
    <<42932,42946,2,1>>, <<42948,42948,1,-48>>, <<42949,42949,1,-42307>>,
    <<42950,42950,1,-35384>>, <<42951,42953,2,1>>, <<42955,42955,1,-42343>>,
    <<42956,42970,2,1>>, <<42972,42972,1,-42561>>, <<42997,42997,1,1>>,
    <<65313,65338,1,32>>, <<66560,66599,1,40>>, <<66736,66771,1,40>>,
    <<66928,66938,1,39>>, <<66940,66954,1,39>>, <<66956,66962,1,39>>,
    <<66964,66965,1,39>>, <<68736,68786,1,64>>, <<68944,68965,1,32>>,
    <<71840,71871,1,32>>, <<93760,93791,1,32>>, <<93856,93880,1,27>>,
    <<125184,125217,1,34>>
    >>

\* the decimal digits (general category Nd) above U+007F, as <<first, last>>
\* (Unicode 16.0, the tables of the regex crate 1.12, whose \d this is)
Nd ==
    <<
    <<1632,1641>>, <<1776,1785>>, <<1984,1993>>, <<2406,2415>>, <<2534,2543>>,
    <<2662,2671>>, <<2790,2799>>, <<2918,2927>>, <<3046,3055>>, <<3174,3183>>,
    <<3302,3311>>, <<3430,3439>>, <<3558,3567>>, <<3664,3673>>, <<3792,3801>>,
    <<3872,3881>>, <<4160,4169>>, <<4240,4249>>, <<6112,6121>>, <<6160,6169>>,
    <<6470,6479>>, <<6608,6617>>, <<6784,6793>>, <<6800,6809>>, <<6992,7001>>,
    <<7088,7097>>, <<7232,7241>>, <<7248,7257>>, <<42528,42537>>,
    <<43216,43225>>, <<43264,43273>>, <<43472,43481>>, <<43504,43513>>,
    <<43600,43609>>, <<44016,44025>>, <<65296,65305>>, <<66720,66729>>,
    <<68912,68921>>, <<68928,68937>>, <<69734,69743>>, <<69872,69881>>,
    <<69942,69951>>, <<70096,70105>>, <<70384,70393>>, <<70736,70745>>,
    <<70864,70873>>, <<71248,71257>>, <<71360,71369>>, <<71376,71395>>,
    <<71472,71481>>, <<71904,71913>>, <<72016,72025>>, <<72688,72697>>,
    <<72784,72793>>, <<73040,73049>>, <<73120,73129>>, <<73552,73561>>,
    <<90416,90425>>, <<92768,92777>>, <<92864,92873>>, <<93008,93017>>,
    <<93552,93561>>, <<118000,118009>>, <<120782,120831>>, <<123200,123209>>,
    <<123632,123641>>, <<124144,124153>>, <<124401,124410>>,
    <<125264,125273>>, <<130032,130041>>
    >>

\* the code points above U+007F with the property Case_Ignorable
\* (Unicode 17.0)
Case_Ignorable ==
    <<
    <<168,168>>, <<173,173>>, <<175,175>>, <<180,180>>, <<183,184>>,
    <<688,879>>, <<884,885>>, <<890,890>>, <<900,901>>, <<903,903>>,
    <<1155,1161>>, <<1369,1369>>, <<1375,1375>>, <<1425,1469>>, <<1471,1471>>,
    <<1473,1474>>, <<1476,1477>>, <<1479,1479>>, <<1524,1524>>, <<1536,1541>>,
    <<1552,1562>>, <<1564,1564>>, <<1600,1600>>, <<1611,1631>>, <<1648,1648>>,
    <<1750,1757>>, <<1759,1768>>, <<1770,1773>>, <<1807,1807>>, <<1809,1809>>,
    <<1840,1866>>, <<1958,1968>>, <<2027,2037>>, <<2042,2042>>, <<2045,2045>>,
    <<2070,2093>>, <<2137,2139>>, <<2184,2184>>, <<2192,2193>>, <<2199,2207>>,
    <<2249,2306>>, <<2362,2362>>, <<2364,2364>>, <<2369,2376>>, <<2381,2381>>,
    <<2385,2391>>, <<2402,2403>>, <<2417,2417>>, <<2433,2433>>, <<2492,2492>>,
    <<2497,2500>>, <<2509,2509>>, <<2530,2531>>, <<2558,2558>>, <<2561,2562>>,
    <<2620,2620>>, <<2625,2626>>, <<2631,2632>>, <<2635,2637>>, <<2641,2641>>,
    <<2672,2673>>, <<2677,2677>>, <<2689,2690>>, <<2748,2748>>, <<2753,2757>>,
    <<2759,2760>>, <<2765,2765>>, <<2786,2787>>, <<2810,2815>>, <<2817,2817>>,
    <<2876,2876>>, <<2879,2879>>, <<2881,2884>>, <<2893,2893>>, <<2901,2902>>,
    <<2914,2915>>, <<2946,2946>>, <<3008,3008>>, <<3021,3021>>, <<3072,3072>>,
    <<3076,3076>>, <<3132,3132>>, <<3134,3136>>, <<3142,3144>>, <<3146,3149>>,
    <<3157,3158>>, <<3170,3171>>, <<3201,3201>>, <<3260,3260>>, <<3263,3263>>,
    <<3270,3270>>, <<3276,3277>>, <<3298,3299>>, <<3328,3329>>, <<3387,3388>>,
    <<3393,3396>>, <<3405,3405>>, <<3426,3427>>, <<3457,3457>>, <<3530,3530>>,
    <<3538,3540>>, <<3542,3542>>, <<3633,3633>>, <<3636,3642>>, <<3654,3662>>,
    <<3761,3761>>, <<3764,3772>>, <<3782,3782>>, <<3784,3790>>, <<3864,3865>>,
    <<3893,3893>>, <<3895,3895>>, <<3897,3897>>, <<3953,3966>>, <<3968,3972>>,
    <<3974,3975>>, <<3981,3991>>, <<3993,4028>>, <<4038,4038>>, <<4141,4144>>,
    <<4146,4151>>, <<4153,4154>>, <<4157,4158>>, <<4184,4185>>, <<4190,4192>>,
    <<4209,4212>>, <<4226,4226>>, <<4229,4230>>, <<4237,4237>>, <<4253,4253>>,
    <<4348,4348>>, <<4957,4959>>, <<5906,5908>>, <<5938,5939>>, <<5970,5971>>,
    <<6002,6003>>, <<6068,6069>>, <<6071,6077>>, <<6086,6086>>, <<6089,6099>>,
    <<6103,6103>>, <<6109,6109>>, <<6155,6159>>, <<6211,6211>>, <<6277,6278>>,
    <<6313,6313>>, <<6432,6434>>, <<6439,6440>>, <<6450,6450>>, <<6457,6459>>,
    <<6679,6680>>, <<6683,6683>>, <<6742,6742>>, <<6744,6750>>, <<6752,6752>>,
    <<6754,6754>>, <<6757,6764>>, <<6771,6780>>, <<6783,6783>>, <<6823,6823>>,
    <<6832,6877>>, <<6880,6891>>, <<6912,6915>>, <<6964,6964>>, <<6966,6970>>,
    <<6972,6972>>, <<6978,6978>>, <<7019,7027>>, <<7040,7041>>, <<7074,7077>>,
    <<7080,7081>>, <<7083,7085>>, <<7142,7142>>, <<7144,7145>>, <<7149,7149>>,
    <<7151,7153>>, <<7212,7219>>, <<7222,7223>>, <<7288,7293>>, <<7376,7378>>,
    <<7380,7392>>, <<7394,7400>>, <<7405,7405>>, <<7412,7412>>, <<7416,7417>>,
    <<7468,7530>>, <<7544,7544>>, <<7579,7679>>, <<8125,8125>>, <<8127,8129>>,
    <<8141,8143>>, <<8157,8159>>, <<8173,8175>>, <<8189,8190>>, <<8203,8207>>,
    <<8216,8217>>, <<8228,8228>>, <<8231,8231>>, <<8234,8238>>, <<8288,8292>>,
    <<8294,8303>>, <<8305,8305>>, <<8319,8319>>, <<8336,8348>>, <<8400,8432>>,
    <<11388,11389>>, <<11503,11505>>, <<11631,11631>>, <<11647,11647>>,
    <<11744,11775>>, <<11823,11823>>, <<12293,12293>>, <<12330,12333>>,
    <<12337,12341>>, <<12347,12347>>, <<12441,12446>>, <<12540,12542>>,
    <<40981,40981>>, <<42232,42237>>, <<42508,42508>>, <<42607,42610>>,
    <<42612,42621>>, <<42623,42623>>, <<42652,42655>>, <<42736,42737>>,
    <<42752,42785>>, <<42864,42864>>, <<42888,42890>>, <<42993,42996>>,
    <<43000,43001>>, <<43010,43010>>, <<43014,43014>>, <<43019,43019>>,
    <<43045,43046>>, <<43052,43052>>, <<43204,43205>>, <<43232,43249>>,
    <<43263,43263>>, <<43302,43309>>, <<43335,43345>>, <<43392,43394>>,
    <<43443,43443>>, <<43446,43449>>, <<43452,43453>>, <<43471,43471>>,
    <<43493,43494>>, <<43561,43566>>, <<43569,43570>>, <<43573,43574>>,
    <<43587,43587>>, <<43596,43596>>, <<43632,43632>>, <<43644,43644>>,
    <<43696,43696>>, <<43698,43700>>, <<43703,43704>>, <<43710,43711>>,
    <<43713,43713>>, <<43741,43741>>, <<43756,43757>>, <<43763,43764>>,
    <<43766,43766>>, <<43867,43871>>, <<43881,43883>>, <<44005,44005>>,
    <<44008,44008>>, <<44013,44013>>, <<64286,64286>>, <<64434,64450>>,
    <<65024,65039>>, <<65043,65043>>, <<65056,65071>>, <<65106,65106>>,
    <<65109,65109>>, <<65279,65279>>, <<65287,65287>>, <<65294,65294>>,
    <<65306,65306>>, <<65342,65342>>, <<65344,65344>>, <<65392,65392>>,
    <<65438,65439>>, <<65507,65507>>, <<65529,65531>>, <<66045,66045>>,
    <<66272,66272>>, <<66422,66426>>, <<67456,67461>>, <<67463,67504>>,
    <<67506,67514>>, <<68097,68099>>, <<68101,68102>>, <<68108,68111>>,
    <<68152,68154>>, <<68159,68159>>, <<68325,68326>>, <<68900,68903>>,
    <<68942,68942>>, <<68969,68973>>, <<68975,68975>>, <<69291,69292>>,
    <<69317,69317>>, <<69370,69375>>, <<69446,69456>>, <<69506,69509>>,
    <<69633,69633>>, <<69688,69702>>, <<69744,69744>>, <<69747,69748>>,
    <<69759,69761>>, <<69811,69814>>, <<69817,69818>>, <<69821,69821>>,
    <<69826,69826>>, <<69837,69837>>, <<69888,69890>>, <<69927,69931>>,
    <<69933,69940>>, <<70003,70003>>, <<70016,70017>>, <<70070,70078>>,
    <<70089,70092>>, <<70095,70095>>, <<70191,70193>>, <<70196,70196>>,
    <<70198,70199>>, <<70206,70206>>, <<70209,70209>>, <<70367,70367>>,
    <<70371,70378>>, <<70400,70401>>, <<70459,70460>>, <<70464,70464>>,
    <<70502,70508>>, <<70512,70516>>, <<70587,70592>>, <<70606,70606>>,
    <<70608,70608>>, <<70610,70610>>, <<70625,70626>>, <<70712,70719>>,
    <<70722,70724>>, <<70726,70726>>, <<70750,70750>>, <<70835,70840>>,
    <<70842,70842>>, <<70847,70848>>, <<70850,70851>>, <<71090,71093>>,
    <<71100,71101>>, <<71103,71104>>, <<71132,71133>>, <<71219,71226>>,
    <<71229,71229>>, <<71231,71232>>, <<71339,71339>>, <<71341,71341>>,
    <<71344,71349>>, <<71351,71351>>, <<71453,71453>>, <<71455,71455>>,
    <<71458,71461>>, <<71463,71467>>, <<71727,71735>>, <<71737,71738>>,
    <<71995,71996>>, <<71998,71998>>, <<72003,72003>>, <<72148,72151>>,
    <<72154,72155>>, <<72160,72160>>, <<72193,72202>>, <<72243,72248>>,
    <<72251,72254>>, <<72263,72263>>, <<72273,72278>>, <<72281,72283>>,
    <<72330,72342>>, <<72344,72345>>, <<72544,72544>>, <<72546,72548>>,
    <<72550,72550>>, <<72752,72758>>, <<72760,72765>>, <<72767,72767>>,
    <<72850,72871>>, <<72874,72880>>, <<72882,72883>>, <<72885,72886>>,
    <<73009,73014>>, <<73018,73018>>, <<73020,73021>>, <<73023,73029>>,
    <<73031,73031>>, <<73104,73105>>, <<73109,73109>>, <<73111,73111>>,
    <<73177,73177>>, <<73459,73460>>, <<73472,73473>>, <<73526,73530>>,
    <<73536,73536>>, <<73538,73538>>, <<73562,73562>>, <<78896,78912>>,
    <<78919,78933>>, <<90398,90409>>, <<90413,90415>>, <<92912,92916>>,
    <<92976,92982>>, <<92992,92995>>, <<93504,93506>>, <<93547,93548>>,
    <<94031,94031>>, <<94095,94111>>, <<94176,94177>>, <<94179,94180>>,
    <<94194,94195>>, <<110576,110579>>, <<110581,110587>>, <<110589,110590>>,
    <<113821,113822>>, <<113824,113827>>, <<118528,118573>>,
    <<118576,118598>>, <<119143,119145>>, <<119155,119170>>,
    <<119173,119179>>, <<119210,119213>>, <<119362,119364>>,
    <<121344,121398>>, <<121403,121452>>, <<121461,121461>>,
    <<121476,121476>>, <<121499,121503>>, <<121505,121519>>,
    <<122880,122886>>, <<122888,122904>>, <<122907,122913>>,
    <<122915,122916>>, <<122918,122922>>, <<122928,122989>>,
    <<123023,123023>>, <<123184,123197>>, <<123566,123566>>,
    <<123628,123631>>, <<124139,124143>>, <<124398,124399>>,
    <<124643,124643>>, <<124646,124646>>, <<124654,124655>>,
    <<124661,124661>>, <<124671,124671>>, <<125136,125142>>,
    <<125252,125259>>, <<127995,127999>>, <<917505,917505>>,
    <<917536,917631>>, <<917760,917999>>
    >>

\* the code points above U+007F with the property Cased and not Case_Ignorable
\* (Unicode 17.0)
Cased ==
    <<
    <<170,170>>, <<181,181>>, <<186,186>>, <<192,214>>, <<216,246>>,
    <<248,442>>, <<444,447>>, <<452,659>>, <<662,687>>, <<880,883>>,
    <<886,887>>, <<891,893>>, <<895,895>>, <<902,902>>, <<904,906>>,
    <<908,908>>, <<910,929>>, <<931,1013>>, <<1015,1153>>, <<1162,1327>>,
    <<1329,1366>>, <<1376,1416>>, <<4256,4293>>, <<4295,4295>>, <<4301,4301>>,
    <<4304,4346>>, <<4349,4351>>, <<5024,5109>>, <<5112,5117>>, <<7296,7306>>,
    <<7312,7354>>, <<7357,7359>>, <<7424,7467>>, <<7531,7543>>, <<7545,7578>>,
    <<7680,7957>>, <<7960,7965>>, <<7968,8005>>, <<8008,8013>>, <<8016,8023>>,
    <<8025,8025>>, <<8027,8027>>, <<8029,8029>>, <<8031,8061>>, <<8064,8116>>,
    <<8118,8124>>, <<8126,8126>>, <<8130,8132>>, <<8134,8140>>, <<8144,8147>>,
    <<8150,8155>>, <<8160,8172>>, <<8178,8180>>, <<8182,8188>>, <<8450,8450>>,
    <<8455,8455>>, <<8458,8467>>, <<8469,8469>>, <<8473,8477>>, <<8484,8484>>,
    <<8486,8486>>, <<8488,8488>>, <<8490,8493>>, <<8495,8500>>, <<8505,8505>>,
    <<8508,8511>>, <<8517,8521>>, <<8526,8526>>, <<8544,8575>>, <<8579,8580>>,
    <<9398,9449>>, <<11264,11387>>, <<11390,11492>>, <<11499,11502>>,
    <<11506,11507>>, <<11520,11557>>, <<11559,11559>>, <<11565,11565>>,
    <<42560,42605>>, <<42624,42651>>, <<42786,42863>>, <<42865,42887>>,
    <<42891,42894>>, <<42896,42972>>, <<42997,42998>>, <<43002,43002>>,
    <<43824,43866>>, <<43872,43880>>, <<43888,43967>>, <<64256,64262>>,
    <<64275,64279>>, <<65313,65338>>, <<65345,65370>>, <<66560,66639>>,
    <<66736,66771>>, <<66776,66811>>, <<66928,66938>>, <<66940,66954>>,
    <<66956,66962>>, <<66964,66965>>, <<66967,66977>>, <<66979,66993>>,
    <<66995,67001>>, <<67003,67004>>, <<68736,68786>>, <<68800,68850>>,
    <<68944,68965>>, <<68976,68997>>, <<71840,71903>>, <<93760,93823>>,
    <<93856,93880>>, <<93883,93907>>, <<119808,119892>>, <<119894,119964>>,
    <<119966,119967>>, <<119970,119970>>, <<119973,119974>>,
    <<119977,119980>>, <<119982,119993>>, <<119995,119995>>,
    <<119997,120003>>, <<120005,120069>>, <<120071,120074>>,
    <<120077,120084>>, <<120086,120092>>, <<120094,120121>>,
    <<120123,120126>>, <<120128,120132>>, <<120134,120134>>,
    <<120138,120144>>, <<120146,120485>>, <<120488,120512>>,
    <<120514,120538>>, <<120540,120570>>, <<120572,120596>>,
    <<120598,120628>>, <<120630,120654>>, <<120656,120686>>,
    <<120688,120712>>, <<120714,120744>>, <<120746,120770>>,
    <<120772,120779>>, <<122624,122633>>, <<122635,122654>>,
    <<122661,122666>>, <<125184,125251>>, <<127280,127305>>,
    <<127312,127337>>, <<127344,127369>>
    >>

\* String::from_utf8_lossy (main.rs 259), one step: the length in bytes of
\* the sequence that starts at b[i] and the scalar value it decodes to; an
\* ill-formed or cut-off sequence gives U+FFFD for its longest well-formed
\* start (a byte past the end reads as 0, which continues nothing)
Utf8At(b, i) ==
    LET at(k) == IF k <= Len(b) THEN b[k] ELSE 0
        b0 == b[i]
        b1 == at(i + 1)
        b2 == at(i + 2)
        b3 == at(i + 3)
        cont(x) == x \in 128..191
        second3 == CASE b0 = 224 -> b1 \in 160..191
                     [] b0 = 237 -> b1 \in 128..159
                     [] OTHER -> cont(b1)
        second4 == CASE b0 = 240 -> b1 \in 144..191
                     [] b0 = 244 -> b1 \in 128..143
                     [] OTHER -> cont(b1)
        bad(n) == [len |-> n, cp |-> Replacement]
    IN CASE b0 < 128 -> [len |-> 1, cp |-> b0]
         [] b0 \in 194..223 ->
              IF ~cont(b1) THEN bad(1)
              ELSE [len |-> 2, cp |-> (b0 - 192) * 64 + (b1 - 128)]
         [] b0 \in 224..239 ->
              IF ~second3 THEN bad(1)
              ELSE IF ~cont(b2) THEN bad(2)
              ELSE [len |-> 3,
                    cp |-> (b0 - 224) * 4096 + (b1 - 128) * 64 + (b2 - 128)]
         [] b0 \in 240..244 ->
              IF ~second4 THEN bad(1)
              ELSE IF ~cont(b2) THEN bad(2)
              ELSE IF ~cont(b3) THEN bad(3)
              ELSE [len |-> 4,
                    cp |-> (b0 - 240) * 262144 + (b1 - 128) * 4096
                             + (b2 - 128) * 64 + (b3 - 128)]
         [] OTHER -> bad(1)

\* String::from_utf8_lossy (main.rs 259): the text a buffer decodes to
RECURSIVE from_utf8_lossy(_)
from_utf8_lossy(b) ==
    LET N == {i \in 1..Len(b) : b[i] >= 128}
    IN IF N = {} THEN b
       ELSE LET i == Min(N)
                u == Utf8At(b, i)
            IN SubSeq(b, 1, i - 1) \o <<u.cp>>
                 \o from_utf8_lossy(SubSeq(b, i + u.len, Len(b)))

\* char::to_lowercase of a code point that maps to one code point
LowerChar(c) ==
    IF c < 128 THEN (IF c \in 65..90 THEN c + 32 ELSE c)
    ELSE LET R == {k \in 1..Len(LowerRules) :
                      /\ c >= LowerRules[k][1] /\ c <= LowerRules[k][2]
                      /\ (c - LowerRules[k][1]) % LowerRules[k][3] = 0}
         IN IF R = {} THEN c ELSE c + LowerRules[CHOOSE k \in R : TRUE][4]

IsCaseIgnorable(c) ==
    IF c < 128 THEN c \in {39, 46, 58, 94, 96} ELSE InRanges(c, Case_Ignorable)
IsCased(c) ==
    IF c < 128 THEN c \in (65..90) \cup (97..122) ELSE InRanges(c, Cased)

\* Final_Sigma: s[i] follows a cased letter and is followed by none, the
\* case-ignorable code points in between not counted
FinalSigma(s, i) ==
    LET before == {j \in 1..(i - 1) : ~IsCaseIgnorable(s[j])}
        after == {j \in (i + 1)..Len(s) : ~IsCaseIgnorable(s[j])}
    IN /\ before # {} /\ IsCased(s[Max(before)])
       /\ ~(after # {} /\ IsCased(s[Min(after)]))

\* U+03A3 lower-cases to U+03C2 where it is final, to U+03C3 elsewhere
LowerAt(s, i) ==
    IF s[i] = 931 THEN (IF FinalSigma(s, i) THEN 962 ELSE 963)
    ELSE LowerChar(s[i])

\* U+0130 lower-cases to the two code points U+0069 U+0307
RECURSIVE ExpandDottedI(_)
ExpandDottedI(s) ==
    LET N == {i \in 1..Len(s) : s[i] = 304}
    IN IF N = {} THEN s
       ELSE SubSeq(s, 1, Min(N) - 1) \o <<105, 775>>
              \o ExpandDottedI(SubSeq(s, Min(N) + 1, Len(s)))

\* str::to_lowercase (main.rs 259)
to_lowercase(s) == ExpandDottedI([i \in 1..Len(s) |-> LowerAt(s, i)])

StartsAt(s, i, w) ==
    /\ i >= 1
    /\ i + Len(w) - 1 <= Len(s)
    /\ SubSeq(s, i, i + Len(w) - 1) = w

\* str::contains (main.rs 261)
contains(s, w) == \E i \in 1..Len(s) : StartsAt(s, i, w)

\* White_Space, as char::is_whitespace (str::trim) and the regex class \s
\* take it
Space ==
    {HT, LF, 11, FF, CR, 32, 133, 160, 5760} \cup (8192..8202)
        \cup {8232, 8233, 8239, 8287, 12288}
\* the ASCII digits, the only ones the integer and address parsers take
Digits == 48..57

\* the regex class \d: every decimal digit of Unicode
Decimals == Digits \cup UNION {Nd[k][1]..Nd[k][2] : k \in 1..Len(Nd)}

\* the regex class [\d\.]
VersionChars == Decimals \cup {Dot}

\* str::trim
RECURSIVE TrimLeft(_)
TrimLeft(s) ==
    IF s # <<>> /\ Head(s) \in Space THEN TrimLeft(Tail(s)) ELSE s
RECURSIVE TrimRight(_)
TrimRight(s) ==
    IF s # <<>> /\ s[Len(s)] \in Space
    THEN TrimRight(SubSeq(s, 1, Len(s) - 1)) ELSE s
trim(s) == TrimRight(TrimLeft(s))

\* last index e >= j-1 such that s[j..e] lies in class C (a greedy C*)
SkipWhile(s, j, C) ==
    CHOOSE e \in (j - 1)..Len(s) :
        /\ \A k \in j..e : s[k] \in C
        /\ (e = Len(s) \/ s[e + 1] \notin C)

(***************************************************************************)
(* Detector: extract_product (main.rs 270-284).                            *)
(***************************************************************************)
W_routeros == Str("routeros")
W_mikrotik == Str("mikrotik")
W_webfig   == Str("webfig")
GenericLabel == Str("WebFig")

\* end of `\s*v?[\d\.]+` started at j, 0 when it does not match
VersionEnd(s, j) ==
    LET j1 == SkipWhile(s, j, Space) + 1
        j2 == IF j1 <= Len(s) /\ s[j1] = LetterV THEN j1 + 1 ELSE j1
        e  == SkipWhile(s, j2, VersionChars)
    IN IF e >= j2 THEN e ELSE 0

\* the four patterns, in the order of the array of main.rs 271-276
Patterns == <<"routeros_ver", "mikrotik_routeros_ver", "webfig", "mikrotik">>

\* end index of the match of pattern p anchored at i, 0 when there is none
PatEnd(p, s, i) ==
    CASE p = "routeros_ver" ->
            IF StartsAt(s, i, W_routeros) THEN VersionEnd(s, i + 8) ELSE 0
      [] p = "mikrotik_routeros_ver" ->
            IF StartsAt(s, i, W_mikrotik)
            THEN LET j == SkipWhile(s, i + 8, Space) + 1
                 IN IF StartsAt(s, j, W_routeros)
                    THEN VersionEnd(s, j + 8) ELSE 0
            ELSE 0
      [] p = "webfig" ->
            IF StartsAt(s, i, W_webfig) THEN i + 5 ELSE 0
      [] p = "mikrotik" ->
            IF StartsAt(s, i, W_mikrotik) THEN i + 7 ELSE 0

\* Regex::captures: group 1 of the leftmost match, as an Option (<<>> / <<x>>)
captures(p, s) ==
    LET I == {i \in 1..Len(s) : PatEnd(p, s, i) > 0}
    IN IF I = {} THEN <<>>
       ELSE <<SubSeq(s, Min(I), PatEnd(p, s, Min(I)))>>

\* first pattern of the list `pats` that captures, trimmed
FirstCapture(pats, s) ==
    LET K == {k \in 1..Len(pats) : captures(pats[k], s) # <<>>}
    IN IF K = {} THEN <<>>
       ELSE <<trim(captures(pats[Min(K)], s)[1])>>

extract_product(s) == FirstCapture(Patterns, s)

(***************************************************************************)
(* Detector: check_webfig (main.rs 243-268), one operator per stage.       *)
(***************************************************************************)
BufSize == 4096

OkNone == [tag |-> "Ok", val |-> <<>>]
OkSome(x) == [tag |-> "Ok", val |-> <<x>>]

ConnectOutcomes == {"ok", "refused", "timeout"}
WriteOutcomes == {"ok", "err"}

\* variant: only a refused connection returns, an elapsed timeout goes on
ConnectFails_RefusedOnly(c) == c = "refused"

\* main.rs 245-247: anything but a connection inside the timeout returns
ConnectFails(c) == c # "ok"

\* main.rs 256-258: a read is used only when it is Ok(n) with n > 0
ReadUsable(rd) == rd.kind = "ok" /\ rd.n > 0

\* main.rs 261-265
has_signature(body) ==
    \/ contains(body, W_webfig) \/ contains(body, W_mikrotik)
    \/ contains(body, W_routeros)
is_match(body) ==
    \E i \in 1..Len(body) :
        \/ StartsAt(body, i, W_routeros) \/ StartsAt(body, i, W_mikrotik)
        \/ StartsAt(body, i, W_webfig)

\* main.rs 259-267: classification of the bytes of the first read
Classify(bytes) ==
    LET body == to_lowercase(from_utf8_lossy(bytes))
    IN IF ~has_signature(body) /\ ~is_match(body) THEN OkNone
       ELSE LET prod == extract_product(body)
            IN OkSome(IF prod = <<>> THEN GenericLabel ELSE prod[1])

\* main.rs 256-267: what check_webfig returns once the read has resolved
AfterRead(rd) ==
    IF ReadUsable(rd) THEN Classify(SubSeq(rd.buf, 1, rd.n)) ELSE OkNone

\* variant: a returned product is never printed
Prints_Never(ret) == FALSE

\* main.rs 117: the task prints only for Ok(Some(prod))
Prints(ret) == ret.tag = "Ok" /\ ret.val # <<>>

(***************************************************************************)
(* What a peer can send: an HTTP response, flattened to the bytes that     *)
(* arrive on the socket, and the ways the first read can resolve.          *)
(***************************************************************************)
T_http   == Str("HTTP/1.1 ")
T_server == Str("Server: ")
CRLF     == <<CR, LF>>
T_nginx  == Str("nginx")
T_MikroTik == Str("MikroTik")
T_RouterOS == Str("RouterOS")
T_WebFig == Str("WebFig")
T_200 == Str("200 OK")
T_404 == Str("404 No")

HeadBytes(r) == T_http \o r.status \o CRLF \o T_server \o r.server \o CRLF \o CRLF
BodyBytes(r) == Flatten(r.body)
HttpBytes(r) == HeadBytes(r) \o BodyBytes(r)

\* tokio read into a 4096-byte buffer (main.rs 255-256): n bytes of what
\* has arrived, never more than the buffer holds
ReadOk(bytes, n) ==
    LET m == IF n <= BufSize THEN n ELSE BufSize
    IN [kind |-> "ok", n |-> m, buf |-> SubSeq(bytes, 1, m)]
ReadEof == [kind |-> "ok", n |-> 0, buf |-> <<>>]
ReadErr == [kind |-> "err", n |-> 0, buf |-> <<>>]
ReadTimeout == [kind |-> "timeout", n |-> 0, buf |-> <<>>]

\* observation label of a read outcome
ReadLabel(rd) ==
    IF rd.kind = "ok" THEN (IF rd.n > 0 THEN "data" ELSE "eof") ELSE rd.kind

(***************************************************************************)
(* Scheduler: main.rs 108-125.                                             *)
(***************************************************************************)
DefaultPorts == <<80, 443, 8080, 8291>>
Addr(k) == <<10, 0, 0, k>>

\* the peers of a scheduler run answer with one of two responses
SchedHit  == [status |-> T_200, server |-> T_nginx, body |-> <<T_RouterOS, Str("6") >>]
SchedMiss == [status |-> T_200, server |-> T_nginx, body |-> <<>>]
SchedReads ==
    UNION {{ReadOk(HttpBytes(r), n) : n \in 1..Len(HttpBytes(r))} :
              r \in {SchedHit, SchedMiss}}
        \cup {ReadEof, ReadErr, ReadTimeout}

\* what check_webfig returns for each of them (main.rs 256-267)
SchedOutcomes == {[rd |-> ReadLabel(rd), ret |-> AfterRead(rd)] : rd \in SchedReads}

\* port sets of a scheduler run: --ports with no token, --port 80, --ports 80,443
PortLists == {<<>>, <<80>>, <<80, 443>>}

NoLog == [conn |-> "none", wr |-> "none", rd |-> "none"]

\* print_banner (main.rs 67-73, called at main.rs 77): six lines on stdout,
\* the last println! ending in "\n" and so giving an empty line; the second
\* line holds U+1F680
BannerLine(t) == [kind |-> "banner", text |-> t]
Banner ==
    <<BannerLine(Str("=======================================")),
      BannerLine(Str("   ") \o <<128640>>
                   \o Str(" Welcome to WebFig Checker Tool   ")),
      BannerLine(Str("   Founder: Ecbrain                    ")),
      BannerLine(Str("   Co-Founder: p4oT09                  ")),
      BannerLine(Str("=======================================")),
      BannerLine(<<>>)>>

\* main.rs 118: println!("{}:{} -> {}", ip, port, prod)
MatchLine(ip, port, prod) ==
    [kind |-> "match", ip |-> ip, port |-> port, prod |-> prod]

Units == 1..Len(tasks)

\* variant: an acquire that also completes when no permit is left
CanAcquire_NoWait(p) == p >= 0

\* Semaphore::acquire (main.rs 116) completes only when a permit is free
CanAcquire(p) == p > 0

\* position of the nested loops after one body (main.rs 111-112)
NextPos(i, j, nports) == IF j < nports THEN <<i, j + 1>> ELSE <<i + 1, 1>>

\* a task holds its permit `_p` from acquire until the end of its block
Holding(u) == upc[u] \in {"connect", "write", "read"}

\* a scheduler step leaves the isolated function runs alone
SchedOnly == UNCHANGED <<probeVars, portVars, rangeVars, expandVars, setupVars>>

\* the target lists of n addresses (main.rs 83-98).  Nothing removes a
\* repeated address: expand_prefixes (main.rs 169-185) pushes the hosts of each
\* prefix in turn, so overlapping or repeated prefixes give the same address
\* more than once.  One list stands for all that repeat at the same positions
RECURSIVE TargetLists(_)
TargetLists(n) ==
    IF n = 0 THEN {<<>>}
    ELSE UNION {{Append(t, Addr(k)) :
                    k \in 1..(Cardinality({t[i] : i \in 1..(n - 1)}) + 1)} :
                t \in TargetLists(n - 1)}

\* the state main is in at main.rs 108: the targets and the port set built,
\* the banner printed.  The runs of MaxUnits tasks have pairwise distinct
\* targets, the shorter ones every pattern of repetition
SchedInit ==
    /\ concurrency \in 0..MaxC
    /\ \E n \in 0..MaxUnits, ps \in PortLists :
          /\ n * Len(ps) <= MaxUnits
          /\ targets \in TargetLists(n)
          /\ n * Len(ps) = MaxUnits => targets = [i \in 1..n |-> Addr(i)]
          /\ portset = ps
    /\ mainPc = "spawn"
    /\ si = 1 /\ sj = 1
    /\ tasks = <<>>
    /\ joinIdx = 1
    /\ permits = concurrency
    /\ upc = <<>> /\ ulog = <<>> /\ uret = <<>> /\ probes = <<>>
    /\ output = Banner

\* main.rs 111-122: one iteration of the inner loop spawns one task
Spawn ==
    /\ mainPc = "spawn"
    /\ si <= Len(targets) /\ sj <= Len(portset)
    /\ tasks' = Append(tasks, [ip |-> targets[si], port |-> portset[sj]])
    /\ upc' = Append(upc, "acquire")
    /\ ulog' = Append(ulog, NoLog)
    /\ uret' = Append(uret, <<>>)
    /\ probes' = Append(probes, 0)
    /\ si' = NextPos(si, sj, Len(portset))[1]
    /\ sj' = NextPos(si, sj, Len(portset))[2]
    /\ UNCHANGED <<concurrency, targets, portset, mainPc, joinIdx, permits, output>>
    /\ SchedOnly

\* main.rs 111-124: the loops are exhausted, main goes on to await the tasks
SpawnDone ==
    /\ mainPc = "spawn"
    /\ (si > Len(targets) \/ Len(portset) = 0)
    /\ mainPc' = "join"
    /\ UNCHANGED <<concurrency, targets, portset, si, sj, tasks, joinIdx, permits,
                   upc, ulog, uret, probes, output>>
    /\ SchedOnly

\* main.rs 116-117, 244-245: sem.acquire() completes; with no await in between
\* the task calls check_webfig and starts the connect, which is then pending
Acquire(u) ==
    /\ u \in Units
    /\ upc[u] = "acquire"
    /\ CanAcquire(permits)
    /\ permits' = permits - 1
    /\ probes' = [probes EXCEPT ![u] = @ + 1]
    /\ upc' = [upc EXCEPT ![u] = "connect"]
    /\ UNCHANGED <<concurrency, targets, portset, mainPc, si, sj, tasks, joinIdx,
                   ulog, uret, output>>
    /\ SchedOnly

\* variant: the permit is kept when the task ends
Finish_KeepsPermit(u, ret) ==
    /\ uret' = [uret EXCEPT ![u] = <<ret>>]
    /\ output' = IF Prints(ret)
                 THEN Append(output, MatchLine(tasks[u].ip, tasks[u].port,
                                               ret.val[1]))
                 ELSE output
    /\ permits' = permits
    /\ upc' = [upc EXCEPT ![u] = "done"]

\* main.rs 117-120: check_webfig has returned ret; print, drop the permit
Finish(u, ret) ==
    /\ uret' = [uret EXCEPT ![u] = <<ret>>]
    /\ output' = IF Prints(ret)
                 THEN Append(output, MatchLine(tasks[u].ip, tasks[u].port,
                                               ret.val[1]))
                 ELSE output
    /\ permits' = permits + 1
    /\ upc' = [upc EXCEPT ![u] = "done"]

\* main.rs 245-247: the pending connect resolves or times out
Connect(u) ==
    /\ u \in Units
    /\ upc[u] = "connect"
    /\ \E c \in ConnectOutcomes :
          /\ ulog' = [ulog EXCEPT ![u].conn = c]
          /\ IF ConnectFails(c)
             THEN Finish(u, OkNone)
             ELSE /\ upc' = [upc EXCEPT ![u] = "write"]
                  /\ UNCHANGED <<uret, output, permits>>
    /\ UNCHANGED <<concurrency, targets, portset, mainPc, si, sj, tasks, joinIdx,
                   probes>>
    /\ SchedOnly

\* main.rs 249-253: the request is written, the result of the write dropped
Write(u) ==
    /\ u \in Units
    /\ upc[u] = "write"
    /\ \E w \in WriteOutcomes : ulog' = [ulog EXCEPT ![u].wr = w]
    /\ upc' = [upc EXCEPT ![u] = "read"]
    /\ UNCHANGED <<concurrency, targets, portset, mainPc, si, sj, tasks, joinIdx,
                   permits, uret, probes, output>>
    /\ SchedOnly

\* main.rs 255-267, 117-120: the read resolves, the rest runs without await
Read(u) ==
    /\ u \in Units
    /\ upc[u] = "read"
    /\ \E o \in SchedOutcomes :
          /\ ulog' = [ulog EXCEPT ![u].rd = o.rd]
          /\ Finish(u, o.ret)
    /\ UNCHANGED <<concurrency, targets, portset, mainPc, si, sj, tasks, joinIdx,
                   probes>>
    /\ SchedOnly

\* main.rs 124: `t.await` of the next handle returns once that task ended
Join ==
    /\ mainPc = "join"
    /\ joinIdx <= Len(tasks)
    /\ upc[joinIdx] = "done"
    /\ joinIdx' = joinIdx + 1
    /\ UNCHANGED <<concurrency, targets, portset, mainPc, si, sj, tasks,
                   permits, upc, ulog, uret, probes, output>>
    /\ SchedOnly

\* variant: main returns without awaiting the handles
MainReturn_NoWait ==
    /\ mainPc = "join"
    /\ mainPc' = "done"
    /\ UNCHANGED <<concurrency, targets, portset, si, sj, tasks, joinIdx,
                   permits, upc, ulog, uret, probes, output>>
    /\ SchedOnly

\* main.rs 125: every handle has been awaited, main returns Ok(())
MainReturn ==
    /\ mainPc = "join"
    /\ joinIdx > Len(tasks)
    /\ mainPc' = "done"
    /\ UNCHANGED <<concurrency, targets, portset, si, sj, tasks, joinIdx,
                   permits, upc, ulog, uret, probes, output>>
    /\ SchedOnly

ProbeIdle ==
    /\ qpc = "idle" /\ qport = 0 /\ qresp = <<>> /\ qlog = NoLog
    /\ qbuf = <<>> /\ qret = <<>> /\ qattempts = <<>>
PortIdle == bpc = "idle" /\ bargs = <<>> /\ bret = <<>>
RangeIdle ==
    /\ rpc = "idle" /\ rspec = <<>> /\ rchecks = FALSE /\ rcap = 0
    /\ rstart = <<>>
    /\ rend = <<>> /\ ra = <<>> /\ rv = <<>> /\ rstatus = "none"

ExpandIdle ==
    /\ epc = "idle" /\ eprefixes = <<>> /\ eper = 0 /\ eall = FALSE /\ eret = <<>>
SetupIdle == margs = <<>>

SchedIdle ==
    /\ concurrency = 0 /\ targets = <<>> /\ portset = <<>> /\ mainPc = "idle"
    /\ si = 0 /\ sj = 0 /\ tasks = <<>> /\ joinIdx = 0 /\ permits = 0
    /\ upc = <<>> /\ ulog = <<>> /\ uret = <<>> /\ probes = <<>> /\ output = <<>>

Init == SchedInit /\ ProbeIdle /\ PortIdle /\ RangeIdle /\ ExpandIdle /\ SetupIdle

Next ==
    \/ Spawn
    \/ SpawnDone
    \/ \E u \in 1..MaxUnits : Acquire(u)
    \/ \E u \in 1..MaxUnits : Connect(u)
    \/ \E u \in 1..MaxUnits : Write(u)
    \/ \E u \in 1..MaxUnits : Read(u)
    \/ Join
    \/ MainReturn

Spec == Init /\ [][Next]_vars

\* Scheduling of the tokio runtime: a runnable task is eventually polled, a
\* timeout-wrapped operation eventually resolves, and the semaphore hands
\* permits to its waiters in FIFO order, so a waiter that can be served
\* again and again is served.
Fairness ==
    /\ WF_vars(Spawn) /\ WF_vars(SpawnDone) /\ WF_vars(Join) /\ WF_vars(MainReturn)
    /\ \A u \in 1..MaxUnits :
          /\ SF_vars(Acquire(u))
          /\ WF_vars(Connect(u)) /\ WF_vars(Write(u)) /\ WF_vars(Read(u))

FairSpec == Init /\ [][Next]_vars /\ Fairness

\* The part of it that concerns main alone: main is one task of the runtime,
\* polled again whenever the handle it awaits is ready.
MainStep == Spawn \/ SpawnDone \/ Join \/ MainReturn
MainFairness == WF_vars(MainStep)

\* the runs with at most one port per target, those of MaxUnits tasks with
\* at most one permit
JoinInit ==
    /\ Init
    /\ Len(portset) <= 1
    /\ (Len(targets) < MaxUnits \/ concurrency <= 1)

JoinSpec == JoinInit /\ [][Next]_vars /\ MainFairness
(***************************************************************************)
(* One call of check_webfig (main.rs 243-268) against one peer.            *)
(***************************************************************************)
\* the tokens of a body, among them U+00A0 (white space) and U+06F0 (a
\* decimal digit) in UTF-8
BodyToks == {T_MikroTik, T_RouterOS, T_WebFig, Str(" "), <<194, 160>>, Str("v"),
             Str("6.4"), <<219, 176>>}

RECURSIVE TokSeqs(_)
TokSeqs(n) ==
    IF n = 0 THEN {<<>>}
    ELSE TokSeqs(n - 1) \cup
         {Append(t, x) : t \in {y \in TokSeqs(n - 1) : Len(y) = n - 1}, x \in BodyToks}

\* a body that pushes its signature past the read buffer
Filler == [i \in 1..BufSize |-> LetterX]

Responses ==
    [status : {T_200, T_404}, server : {T_nginx, T_MikroTik}, body : TokSeqs(MaxBodyToks)]
        \cup {[status |-> T_200, server |-> T_nginx, body |-> <<Filler, T_WebFig>>]}

\* the first read returns what has arrived by then, a non-empty prefix of the
\* response (main.rs 256 reads once): every prefix of up to MaxRead bytes, and
\* for a longer response also the reads that fill the buffer or take it all
Segments(r) ==
    {n \in 1..Len(HttpBytes(r)) :
        n <= MaxRead \/ n >= BufSize \/ n = Len(HttpBytes(r))}

ProbeOnly == UNCHANGED <<schedVars, portVars, rangeVars, expandVars, setupVars>>

ProbeInit ==
    /\ SchedIdle /\ PortIdle /\ RangeIdle /\ ExpandIdle /\ SetupIdle
    /\ qpc = "connect"
    /\ qport \in {80, 443}
    /\ qresp \in Responses
    /\ qlog = NoLog /\ qbuf = <<>> /\ qret = <<>> /\ qattempts = <<>>

\* main.rs 244-247: one plain TCP connect, bounded by the timeout
QConnect ==
    /\ qpc = "connect"
    /\ qattempts' = Append(qattempts, "http")
    /\ \E c \in ConnectOutcomes :
          /\ qlog' = [qlog EXCEPT !.conn = c]
          /\ IF ConnectFails(c)
             THEN qpc' = "done" /\ qret' = <<OkNone>>
             ELSE qpc' = "write" /\ qret' = qret
    /\ UNCHANGED <<qport, qresp, qbuf>>
    /\ ProbeOnly

\* main.rs 249-253: the request is written, the result of the write dropped
QWrite ==
    /\ qpc = "write"
    /\ \E w \in WriteOutcomes : qlog' = [qlog EXCEPT !.wr = w]
    /\ qpc' = "read"
    /\ UNCHANGED <<qport, qresp, qbuf, qret, qattempts>>
    /\ ProbeOnly

\* main.rs 255-267: one read bounded by the timeout, then the classification
QRead ==
    /\ qpc = "read"
    /\ \E rd \in {ReadOk(HttpBytes(qresp), n) : n \in Segments(qresp)}
                    \cup {ReadEof, ReadErr, ReadTimeout} :
          /\ qlog' = [qlog EXCEPT !.rd = ReadLabel(rd)]
          /\ qbuf' = SubSeq(rd.buf, 1, rd.n)
          /\ qret' = <<AfterRead(rd)>>
    /\ qpc' = "done"
    /\ UNCHANGED <<qport, qresp, qattempts>>
    /\ ProbeOnly

ProbeNext == QConnect \/ QWrite \/ QRead

ProbeSpec == ProbeInit /\ [][ProbeNext]_vars

(***************************************************************************)
(* Parsing helpers shared by the port and the range specifications.        *)
(***************************************************************************)
\* str::split(sep): the pieces between the separators, empty pieces kept
RECURSIVE split(_, _)
split(s, sep) ==
    LET I == {i \in 1..Len(s) : s[i] = sep}
    IN IF I = {} THEN <<s>>
       ELSE <<SubSeq(s, 1, Min(I) - 1)>> \o split(SubSeq(s, Min(I) + 1, Len(s)), sep)

\* str::split_once(sep): <<>> when sep is absent, else <<before, after>>
split_once(s, sep) ==
    LET I == {i \in 1..Len(s) : s[i] = sep}
    IN IF I = {} THEN <<>>
       ELSE <<SubSeq(s, 1, Min(I) - 1), SubSeq(s, Min(I) + 1, Len(s))>>

DigitVal(c) == c - 48

ParseErr == [ok |-> FALSE, val |-> 0]

\* decimal value of a digit string, failing as soon as it exceeds max
RECURSIVE ParseDigits(_, _, _)
ParseDigits(cs, acc, max) ==
    IF cs = <<>> THEN [ok |-> TRUE, val |-> acc]
    ELSE LET n == acc * 10 + DigitVal(Head(cs))
         IN IF n > max THEN ParseErr ELSE ParseDigits(Tail(cs), n, max)

U16Max == 65535

\* str::parse::<u16>: optional '+', then digits only, no overflow
parse_u16(cs) ==
    LET d == IF cs # <<>> /\ Head(cs) = Plus THEN Tail(cs) ELSE cs
    IN IF d = <<>> \/ \E i \in 1..Len(d) : d[i] \notin Digits
       THEN ParseErr
       ELSE ParseDigits(d, 0, U16Max)

(***************************************************************************)
(* build_portset (main.rs 209-231).                                        *)
(***************************************************************************)
RECURSIVE Insert(_, _)
Insert(v, x) ==
    IF v = <<>> THEN <<x>>
    ELSE IF x <= Head(v) THEN <<x>> \o v
    ELSE <<Head(v)>> \o Insert(Tail(v), x)

\* Vec::sort_unstable (main.rs 225)
RECURSIVE sort_unstable(_)
sort_unstable(v) ==
    IF v = <<>> THEN <<>> ELSE Insert(sort_unstable(Tail(v)), Head(v))

\* Vec::dedup (main.rs 226): consecutive repeats are removed
RECURSIVE dedup(_)
dedup(v) ==
    IF Len(v) <= 1 THEN v
    ELSE IF v[1] = v[2] THEN dedup(Tail(v))
    ELSE <<v[1]>> \o dedup(Tail(v))

\* lo..=hi (main.rs 220)
RangeInclusive(lo, hi) == [i \in 1..(hi - lo + 1) |-> lo + i - 1]

PortsErr == [tag |-> "Err", v |-> <<>>]
PortsOk(v) == [tag |-> "Ok", v |-> v]

\* main.rs 216-222: the ports one trimmed, non-empty item contributes
ItemPorts(item) ==
    LET so == split_once(item, Dash)
    IN IF so # <<>>
       THEN LET start == parse_u16(trim(so[1]))
                end == parse_u16(trim(so[2]))
            IN IF ~start.ok \/ ~end.ok THEN PortsErr
               ELSE LET lo == IF start.val <= end.val THEN start.val ELSE end.val
                        hi == IF start.val <= end.val THEN end.val ELSE start.val
                    IN PortsOk(RangeInclusive(lo, hi))
       ELSE LET one == parse_u16(item)
            IN IF one.ok THEN PortsOk(<<one.val>>) ELSE PortsErr

\* main.rs 213-224: the loop over the items, left on the first error
RECURSIVE CollectPorts(_, _)
CollectPorts(items, v) ==
    IF items = <<>> THEN PortsOk(v)
    ELSE LET item == trim(Head(items))
         IN IF item = <<>> THEN CollectPorts(Tail(items), v)
            ELSE LET r == ItemPorts(item)
                 IN IF r.tag = "Err" THEN PortsErr
                    ELSE CollectPorts(Tail(items), v \o r.v)

build_portset(a) ==
    IF a.all_ports THEN PortsOk(RangeInclusive(1, U16Max))
    ELSE IF a.ports # <<>>
    THEN LET c == CollectPorts(split(a.ports[1], Comma), <<>>)
         IN IF c.tag = "Err" THEN PortsErr
            ELSE PortsOk(dedup(sort_unstable(c.v)))
    ELSE IF a.port # <<>> THEN PortsOk(<<a.port[1]>>)
    ELSE PortsOk(DefaultPorts)

PortToks == {Str("0"), Str("1"), Str("2"), Str("80"), Str("82"),
             Str("65535"), Str("65536"),
             Str("-"), Str(","), Str(" "), <<FF>>, <<5760>>, <<1776>>}

RECURSIVE PortTokSeqs(_)
PortTokSeqs(n) ==
    IF n = 0 THEN {<<>>}
    ELSE PortTokSeqs(n - 1) \cup
         {Append(t, x) : t \in {y \in PortTokSeqs(n - 1) : Len(y) = n - 1},
                         x \in PortToks}

\* the items of a --ports string that are ranges with two parsed bounds
RangeItems(s) ==
    LET items == split(s, Comma)
    IN {k \in 1..Len(items) :
          LET so == split_once(trim(items[k]), Dash)
          IN so # <<>> /\ parse_u16(trim(so[1])).ok /\ parse_u16(trim(so[2])).ok}
RangeBounds(s, k) ==
    LET so == split_once(trim(split(s, Comma)[k]), Dash)
    IN <<parse_u16(trim(so[1])).val, parse_u16(trim(so[2])).val>>
SpanOf(b) == IF b[1] <= b[2] THEN b[2] - b[1] ELSE b[1] - b[2]

\* the strings of the spec's examples: 80,443,8080-8082  0  70000  90-80
ExamplePorts ==
    { Str("80,443,8080-8082"),
      Str("0"), Str("70000"), Str("90-80") }

PortStrings ==
    {s \in {Flatten(t) : t \in PortTokSeqs(MaxPortToks)} :
        \A k \in RangeItems(s) : SpanOf(RangeBounds(s, k)) <= MaxSpan}
      \cup ExamplePorts

PortArgs ==
    {[all_ports |-> FALSE, ports |-> <<s>>, port |-> <<>>] : s \in PortStrings}
      \cup {[all_ports |-> FALSE, ports |-> <<>>, port |-> p] :
                p \in {<<>>, <<0>>, <<80>>, <<U16Max>>}}
      \cup {[all_ports |-> TRUE, ports |-> po, port |-> <<>>] :
                po \in {<<>>, << Str("0") >>}}

PortOnly == UNCHANGED <<schedVars, probeVars, rangeVars, expandVars, setupVars>>

PortInit ==
    /\ SchedIdle /\ ProbeIdle /\ RangeIdle /\ ExpandIdle /\ SetupIdle
    /\ bpc = "call" /\ bargs \in PortArgs /\ bret = <<>>

\* main.rs 80: let portset = build_portset(&args)
BuildPortset ==
    /\ bpc = "call"
    /\ bret' = <<build_portset(bargs)>>
    /\ bpc' = "done"
    /\ UNCHANGED bargs
    /\ PortOnly

PortNext == BuildPortset

PortSpec == PortInit /\ [][PortNext]_vars

(***************************************************************************)
(* expand_ipv4_range (main.rs 187-205).  An Ipv4Addr is its four octets;   *)
(* u32::from orders addresses octet by octet, most significant first.      *)
(***************************************************************************)
OctetMax == 255
AddrMax == <<OctetMax, OctetMax, OctetMax, OctetMax>>
AddrZero == <<0, 0, 0, 0>>

\* one octet of Ipv4Addr::from_str: 1 to 3 digits, no leading zero, <= 255
parse_octet(cs) ==
    IF \/ cs = <<>> \/ Len(cs) > 3
       \/ \E i \in 1..Len(cs) : cs[i] \notin Digits
       \/ (Len(cs) > 1 /\ cs[1] = Zero)
    THEN ParseErr
    ELSE ParseDigits(cs, 0, OctetMax)

\* Ipv4Addr::from_str (main.rs 192, 194, 198): <<>> on error, else <<addr>>
parse_ipv4(cs) ==
    LET ps == split(cs, Dot)
    IN IF Len(ps) # 4 \/ \E i \in 1..4 : ~parse_octet(ps[i]).ok THEN <<>>
       ELSE << [i \in 1..4 |-> parse_octet(ps[i]).val] >>

\* [..].join(".") (main.rs 198)
RECURSIVE join(_, _)
join(ps, sep) ==
    IF ps = <<>> THEN <<>>
    ELSE IF Len(ps) = 1 THEN ps[1]
    ELSE ps[1] \o <<sep>> \o join(Tail(ps), sep)

\* u32::from(a) > u32::from(b) (main.rs 200)
U32Gt(a, b) ==
    \E i \in 1..4 : a[i] > b[i] /\ \A k \in 1..(i - 1) : a[k] = b[k]
U32Le(a, b) == ~U32Gt(a, b)

\* a + 1 on u32 below u32::MAX (main.rs 203)
AddrInc(a) ==
    IF a[4] < OctetMax THEN <<a[1], a[2], a[3], a[4] + 1>>
    ELSE IF a[3] < OctetMax THEN <<a[1], a[2], a[3] + 1, 0>>
    ELSE IF a[2] < OctetMax THEN <<a[1], a[2] + 1, 0, 0>>
    ELSE <<a[1] + 1, 0, 0, 0>>

\* main.rs 188-199: the two endpoints of the specification, <<>> on error
RangeEnds(spec) ==
    LET parts == split(spec, Dash)
    IN IF Len(parts) # 2 THEN <<>>
       ELSE LET start == parse_ipv4(parts[1])
            IN IF start = <<>> THEN <<>>
               ELSE LET end == IF \E i \in 1..Len(parts[2]) : parts[2][i] = Dot
                               THEN parse_ipv4(parts[2])
                               ELSE LET o == split(parts[1], Dot)
                                    IN parse_ipv4(join([o EXCEPT ![4] = parts[2]], Dot))
                    IN IF end = <<>> THEN <<>> ELSE <<start[1], end[1]>>

A_lowA == Str("10.0.0.255")
A_lowB == Str("10.0.1.0")
A_lowC == Str("10.0.1.1")
A_topA == Str("255.255.255.254")
A_topB == Str("255.255.255.255")
StartStrings == {A_lowA, A_lowB, A_lowC, A_topA, A_topB,
                 Str("10.0.1"), Str("10.0.0.256")}
EndStrings == {A_lowA, A_lowB, A_lowC, A_topA, A_topB,
               Str("0"), Str("1"), Str("2"), Str("255"), Str("256"),
               Str("01"), <<>>, Str("1-2")}
RangeStrings == {a \o Str("-") \o b : a \in StartStrings, b \in EndStrings}
                    \cup {A_lowA}

RangeOnly == UNCHANGED <<schedVars, probeVars, portVars, expandVars, setupVars>>

\* rchecks: whether the build checks integer overflow (debug) or wraps (release)
\* rcap: the number of addresses the Vec can grow to before an allocation
\* fails; every walk of RangeStrings that ends has at most 256 addresses and
\* fits, only a walk that has wrapped runs out of room
RangeInit ==
    /\ SchedIdle /\ ProbeIdle /\ PortIdle /\ ExpandIdle /\ SetupIdle
    /\ rpc = "call"
    /\ rspec \in RangeStrings
    /\ rchecks \in BOOLEAN
    /\ rcap = MaxWalk
    /\ rstart = <<>> /\ rend = <<>> /\ ra = <<>> /\ rv = <<>> /\ rstatus = "none"

\* main.rs 188-202: parse the endpoints, refuse start > end, set up the walk
RParse ==
    /\ rpc = "call"
    /\ LET e == RangeEnds(rspec)
       IN IF e = <<>>
          THEN /\ rpc' = "done" /\ rstatus' = "err"
               /\ UNCHANGED <<rstart, rend, ra>>
          ELSE /\ rstart' = e[1] /\ rend' = e[2]
               /\ IF U32Gt(e[1], e[2])
                  THEN rpc' = "done" /\ rstatus' = "err" /\ ra' = ra
                  ELSE rpc' = "walk" /\ rstatus' = rstatus /\ ra' = e[1]
    /\ UNCHANGED <<rspec, rchecks, rcap, rv>>
    /\ RangeOnly

\* main.rs 203: one turn of `while a <= b { v.push(a); a += 1; }`
RStep ==
    /\ rpc = "walk"
    /\ U32Le(ra, rend)
    /\ Len(rv) < rcap
    /\ rv' = Append(rv, ra)
    /\ IF ra # AddrMax
       THEN ra' = AddrInc(ra) /\ UNCHANGED <<rpc, rstatus>>
       ELSE IF rchecks
            THEN rpc' = "done" /\ rstatus' = "panic" /\ ra' = ra
            ELSE ra' = AddrZero /\ UNCHANGED <<rpc, rstatus>>
    /\ UNCHANGED <<rspec, rchecks, rcap, rstart, rend>>
    /\ RangeOnly

\* main.rs 203-204: the loop condition fails, Ok(v)
RReturn ==
    /\ rpc = "walk"
    /\ U32Gt(ra, rend)
    /\ rpc' = "done" /\ rstatus' = "ok"
    /\ UNCHANGED <<rspec, rchecks, rcap, rstart, rend, ra, rv>>
    /\ RangeOnly

\* main.rs 203: `v.push` when the Vec has no room left and cannot grow; the
\* allocation failure aborts the process.  A walk too long for the memory
\* ends here in either build, and so does every walk that has wrapped: after
\* the wrap `a <= b` holds for ever and every turn pushes
RAbort ==
    /\ rpc = "walk"
    /\ U32Le(ra, rend)
    /\ Len(rv) >= rcap
    /\ rpc' = "done" /\ rstatus' = "abort"
    /\ UNCHANGED <<rspec, rchecks, rcap, rstart, rend, ra, rv>>
    /\ RangeOnly

RangeNext == RParse \/ RStep \/ RReturn \/ RAbort

RangeSpec == RangeInit /\ [][RangeNext]_vars

(***************************************************************************)
(* expand_prefixes (main.rs 169-185).  An IpNet is [v, addr, len]; for a   *)
(* V4 net addr is the four octets as written, len the prefix length.       *)
(* Ipv4Net::hosts() runs from network() to broadcast(), both left out      *)
(* when len < 31.                                                          *)
(***************************************************************************)
RECURSIVE Pow2(_)
Pow2(k) == IF k = 0 THEN 1 ELSE 2 * Pow2(k - 1)

\* number of host bits of octet i under a prefix of length len
HostBits(len, i) ==
    LET net == len - 8 * (i - 1)
    IN IF net <= 0 THEN 8 ELSE IF net >= 8 THEN 0 ELSE 8 - net

\* Ipv4Net::network and Ipv4Net::broadcast
Network(p) ==
    [i \in 1..4 |-> (p.addr[i] \div Pow2(HostBits(p.len, i))) * Pow2(HostBits(p.len, i))]
Broadcast(p) ==
    [i \in 1..4 |-> Network(p)[i] + Pow2(HostBits(p.len, i)) - 1]

\* a - 1 on u32 above 0
AddrDec(a) ==
    IF a[4] > 0 THEN <<a[1], a[2], a[3], a[4] - 1>>
    ELSE IF a[3] > 0 THEN <<a[1], a[2], a[3] - 1, OctetMax>>
    ELSE IF a[2] > 0 THEN <<a[1], a[2] - 1, OctetMax, OctetMax>>
    ELSE <<a[1] - 1, OctetMax, OctetMax, OctetMax>>

\* first and last address of v4.hosts() (main.rs 174, 177)
FirstHost(p) == IF p.len < 31 THEN AddrInc(Network(p)) ELSE Network(p)
LastHost(p) == IF p.len < 31 THEN AddrDec(Broadcast(p)) ELSE Broadcast(p)

\* main.rs 174: `for ip in v4.hosts() { ips.push(ip) }`
RECURSIVE PushAll(_, _)
PushAll(a, last) ==
    IF U32Gt(a, last) THEN <<>>
    ELSE IF a = last THEN <<a>>
    ELSE <<a>> \o PushAll(AddrInc(a), last)

\* main.rs 176-180: push, count, leave the loop once n >= per
RECURSIVE PushSample(_, _, _, _)
PushSample(a, last, n, per) ==
    IF U32Gt(a, last) THEN <<>>
    ELSE IF n + 1 >= per \/ a = last THEN <<a>>
    ELSE <<a>> \o PushSample(AddrInc(a), last, n + 1, per)

\* main.rs 172-182: what one prefix adds to ips
PrefixIps(p, per, all) ==
    IF p.v # 4 THEN <<>>
    ELSE IF all THEN PushAll(FirstHost(p), LastHost(p))
    ELSE PushSample(FirstHost(p), LastHost(p), 0, per)

\* main.rs 169-185
RECURSIVE expand_prefixes(_, _, _)
expand_prefixes(prefixes, per, all) ==
    IF prefixes = <<>> THEN <<>>
    ELSE PrefixIps(Head(prefixes), per, all)
            \o expand_prefixes(Tail(prefixes), per, all)

Net4(a, b, c, d, len) == [v |-> 4, addr |-> <<a, b, c, d>>, len |-> len]
Net6 == [v |-> 6, addr |-> <<>>, len |-> 64]

PrefixPool ==
    {Net4(10, 0, 0, 0, 30), Net4(10, 0, 0, 0, 31), Net4(10, 0, 0, 1, 32),
     Net4(10, 0, 0, 0, 29), Net4(10, 0, 0, 6, 29), Net4(10, 0, 255, 250, 28),
     Net4(255, 255, 255, 252, 30), Net6}

RECURSIVE PrefixLists(_)
PrefixLists(n) ==
    IF n = 0 THEN {<<>>}
    ELSE PrefixLists(n - 1) \cup
         {Append(t, x) : t \in {y \in PrefixLists(n - 1) : Len(y) = n - 1},
                         x \in PrefixPool}

DefaultPerPrefix == 1

ExpandOnly == UNCHANGED <<schedVars, probeVars, portVars, rangeVars, setupVars>>

ExpandInit ==
    /\ SchedIdle /\ ProbeIdle /\ PortIdle /\ RangeIdle /\ SetupIdle
    /\ epc = "call"
    /\ eprefixes \in PrefixLists(MaxPrefixes)
    /\ eper \in 0..MaxPer
    /\ eall \in BOOLEAN
    /\ eret = <<>>

\* main.rs 86, 89: expand_prefixes(&prefixes, args.per_prefix, args.expand_all_ips)
ExpandPrefixes ==
    /\ epc = "call"
    /\ eret' = expand_prefixes(eprefixes, eper, eall)
    /\ epc' = "done"
    /\ UNCHANGED <<eprefixes, eper, eall>>
    /\ ExpandOnly

ExpandNext == ExpandPrefixes

ExpandSpec == ExpandInit /\ [][ExpandNext]_vars

(***************************************************************************)
(* main from its arguments (main.rs 76-126): the port set and the targets  *)
(* are built first, any error ends the run before a task is spawned.       *)
(* margs.cidr holds what `c.parse::<IpNet>()` gives, margs.asn what        *)
(* fetch_asn_prefixes returns; margs.checks says whether the build checks  *)
(* integer overflow, margs.cap how many addresses the Vec of a range walk  *)
(* has room for.                                                           *)
(***************************************************************************)
HexDigits == Digits \cup (97..102) \cup (65..70)
HexVal(c) ==
    IF c \in Digits THEN DigitVal(c)
    ELSE IF c \in 97..102 THEN c - 87 ELSE c - 55

RECURSIVE ParseHex(_, _)
ParseHex(cs, acc) ==
    IF cs = <<>> THEN acc ELSE ParseHex(Tail(cs), acc * 16 + HexVal(Head(cs)))

\* one group of an IPv6 address: one to four hex digits
parse_group(cs) ==
    IF cs = <<>> \/ Len(cs) > 4 \/ \E i \in 1..Len(cs) : cs[i] \notin HexDigits
    THEN ParseErr
    ELSE [ok |-> TRUE, val |-> ParseHex(cs, 0)]

\* the 16-bit groups written in one part of an IPv6 address, the last item
\* possibly a dotted IPv4 address standing for two groups: <<>> on error,
\* else <<groups>>
Groups(part, v4ok) ==
    IF part = <<>> THEN << <<>> >>
    ELSE LET items == split(part, Colon)
             n == Len(items)
             v4 == IF v4ok THEN parse_ipv4(items[n]) ELSE <<>>
             hex == IF v4 # <<>> THEN SubSeq(items, 1, n - 1) ELSE items
         IN IF \E i \in 1..Len(hex) : ~parse_group(hex[i]).ok THEN <<>>
            ELSE << [i \in 1..Len(hex) |-> parse_group(hex[i]).val]
                      \o (IF v4 = <<>> THEN <<>>
                          ELSE <<v4[1][1] * 256 + v4[1][2],
                                 v4[1][3] * 256 + v4[1][4]>>) >>

\* Ipv6Addr::from_str: eight groups, or fewer around one "::" that stands
\* for at least one group of zeroes; an embedded IPv4 address only at the
\* very end; <<>> on error, else <<the eight groups>>
parse_ipv6(cs) ==
    LET D == {i \in 1..(Len(cs) - 1) : cs[i] = Colon /\ cs[i + 1] = Colon}
    IN IF D = {}
       THEN LET g == Groups(cs, TRUE)
            IN IF g # <<>> /\ Len(g[1]) = 8 THEN g ELSE <<>>
       ELSE LET d == Min(D)
                head == Groups(SubSeq(cs, 1, d - 1), FALSE)
                tail == Groups(SubSeq(cs, d + 2, Len(cs)), TRUE)
            IN IF head = <<>> \/ tail = <<>> THEN <<>>
               ELSE IF Len(head[1]) + Len(tail[1]) > 7 THEN <<>>
               ELSE << head[1]
                         \o [i \in 1..(8 - Len(head[1]) - Len(tail[1])) |-> 0]
                         \o tail[1] >>

\* IpAddr::from_str (main.rs 93): an IPv4 address (four octets) or an IPv6
\* address (eight groups)
parse_ipaddr(cs) ==
    IF parse_ipv4(cs) # <<>> THEN parse_ipv4(cs) ELSE parse_ipv6(cs)

TargetsErr == [tag |-> "Err", v |-> <<>>]
TargetsOk(v) == [tag |-> "Ok", v |-> v]

\* whether the addresses a..=b are at most cap (0 < cap < 2^31): a + cap,
\* computed on the two 16-bit halves of a, overflows or lies above b
Half(a, k) == a[2 * k - 1] * 256 + a[2 * k]
Fits(a, b, cap) ==
    LET lo == Half(a, 2) + (cap % 65536)
        hi == Half(a, 1) + (cap \div 65536) + (lo \div 65536)
    IN \/ hi > 65535
       \/ hi > Half(b, 1)
       \/ (hi = Half(b, 1) /\ (lo % 65536) > Half(b, 2))

\* main.rs 187-205 as one call, in a build with or without overflow checks
\* and with room for cap addresses in the Vec.  A walk of more than cap
\* addresses is aborted on the allocation failure.  A walk that reaches
\* u32::MAX overflows on `a += 1`: that panics with overflow checks; without
\* them a wraps, the loop pushes for ever and the process is aborted on the
\* allocation failure as well
expand_ipv4_range(spec, checks, cap) ==
    LET e == RangeEnds(spec)
    IN IF e = <<>> THEN TargetsErr
       ELSE IF U32Gt(e[1], e[2]) THEN TargetsErr
       ELSE IF ~Fits(e[1], e[2], cap) THEN [tag |-> "Abort", v |-> <<>>]
       ELSE IF e[2] = AddrMax
            THEN [tag |-> IF checks THEN "Panic" ELSE "Abort", v |-> <<>>]
            ELSE TargetsOk(PushAll(e[1], e[2]))

\* main.rs 83-98
BuildTargets(a) ==
    IF a.asn # <<>>
    THEN IF a.asn[1].tag = "Err" THEN TargetsErr
         ELSE TargetsOk(expand_prefixes(a.asn[1].v, a.per_prefix, a.expand_all_ips))
    ELSE IF a.cidr # <<>>
    THEN IF a.cidr[1].tag = "Err" THEN TargetsErr
         ELSE TargetsOk(expand_prefixes(a.cidr[1].v, a.per_prefix, a.expand_all_ips))
    ELSE IF a.ip_range # <<>>
    THEN expand_ipv4_range(a.ip_range[1], a.checks, a.cap)
    ELSE IF a.ip # <<>>
    THEN IF parse_ipaddr(a.ip[1]) = <<>> THEN TargetsErr
         ELSE TargetsOk(parse_ipaddr(a.ip[1]))
    ELSE TargetsErr

\* --ports "," | --ports 80,82 | --ports "-" | --port 80 | neither
PortChoices ==
    {[all_ports |-> FALSE, ports |-> << Str(",") >>, port |-> <<>>],
     [all_ports |-> FALSE, ports |-> << Str("80,82") >>, port |-> <<>>],
     [all_ports |-> FALSE, ports |-> << Str("-") >>, port |-> <<>>],
     [all_ports |-> FALSE, ports |-> <<>>, port |-> <<80>>],
     [all_ports |-> FALSE, ports |-> <<>>, port |-> <<>>]}

NoTarget ==
    [asn |-> <<>>, cidr |-> <<>>, ip_range |-> <<>>, ip |-> <<>>,
     per_prefix |-> DefaultPerPrefix, expand_all_ips |-> FALSE, checks |-> TRUE,
     cap |-> MaxWalk]

TargetChoices ==
    {NoTarget}
      \cup {[NoTarget EXCEPT !.ip = <<s>>] :
                s \in {A_lowB, Str("10.0.1"), Str("::1"),
                       Str("1::2::3")}}
      \cup {[NoTarget EXCEPT !.ip_range = <<s>>] :
                s \in {A_lowB \o Str("-") \o Str("1"), A_lowC \o Str("-") \o A_lowB,
                       A_lowB}}
      \cup {[NoTarget EXCEPT !.ip_range = <<A_topA \o Str("-") \o A_topB>>,
                             !.checks = c] : c \in BOOLEAN}
      \cup {[NoTarget EXCEPT !.ip_range = <<A_lowA \o Str("-") \o A_lowC>>]}
      \cup {[NoTarget EXCEPT !.cidr = <<TargetsErr>>, !.ip = <<A_lowB>>]}
      \cup {[NoTarget EXCEPT !.cidr = <<TargetsOk(v)>>] :
                v \in {<<Net6>>, <<Net4(10, 0, 0, 1, 32)>>}}
      \cup {[NoTarget EXCEPT !.cidr = <<TargetsOk(<<Net4(10, 0, 0, 0, 30)>>)>>,
                             !.per_prefix = n, !.expand_all_ips = b] :
                n \in {DefaultPerPrefix, MaxPer}, b \in BOOLEAN}
      \cup {[NoTarget EXCEPT !.asn = <<TargetsErr>>]}
      \cup {[NoTarget EXCEPT !.asn = <<TargetsOk(v)>>, !.per_prefix = n] :
                v \in {x \in PrefixLists(MaxPrefixes) :
                          \A k \in 1..Len(x) : x[k] = Net4(10, 0, 0, 0, 30)},
                n \in {DefaultPerPrefix, MaxPer}}

\* the runs whose scan, if it is reached, has at most MaxUnits units
MainArgs ==
    {a \in {p @@ t @@ [concurrency |-> c] :
                p \in PortChoices, t \in TargetChoices, c \in {1, MaxC}} :
        (build_portset(a).tag = "Ok" /\ BuildTargets(a).tag = "Ok") =>
            Len(BuildTargets(a).v) * Len(build_portset(a).v) <= MaxUnits}

MainOnly == UNCHANGED <<probeVars, portVars, rangeVars, expandVars>>

MainInit ==
    /\ ProbeIdle /\ PortIdle /\ RangeIdle /\ ExpandIdle
    /\ margs \in MainArgs
    /\ mainPc = "start"
    /\ concurrency = 0 /\ targets = <<>> /\ portset = <<>>
    /\ si = 0 /\ sj = 0 /\ tasks = <<>> /\ joinIdx = 0 /\ permits = 0
    /\ upc = <<>> /\ ulog = <<>> /\ uret = <<>> /\ probes = <<>> /\ output = <<>>

\* main.rs 99-109: the targets are known; create the semaphore and the task
\* list and enter the spawn loops
StartScan(ts) ==
    /\ targets' = ts
    /\ concurrency' = margs.concurrency
    /\ permits' = margs.concurrency
    /\ si' = 1 /\ sj' = 1 /\ joinIdx' = 1
    /\ mainPc' = "spawn"

\* main.rs 77-109: print the banner, build the port set, then the targets,
\* `?` returning any error from main.  With --asn main is suspended at
\* `fetch_asn_prefixes(asn).await` (main.rs 84), the banner printed and the
\* port set built; with any other source the targets are computed at once
Setup ==
    /\ mainPc = "start"
    /\ output' = Banner
    /\ LET ps == build_portset(margs)
       IN IF ps.tag = "Err"
          THEN /\ mainPc' = "failed"
               /\ UNCHANGED <<concurrency, targets, portset, si, sj, joinIdx, permits>>
          ELSE /\ portset' = ps.v
               /\ IF margs.asn # <<>>
                  THEN /\ mainPc' = "fetch"
                       /\ UNCHANGED <<concurrency, targets, si, sj, joinIdx, permits>>
                  ELSE LET ts == BuildTargets(margs)
                       IN IF ts.tag = "Ok"
                          THEN StartScan(ts.v)
                          ELSE /\ mainPc' = "failed"
                               /\ UNCHANGED <<concurrency, targets, si, sj,
                                              joinIdx, permits>>
    /\ UNCHANGED <<tasks, upc, ulog, uret, probes, margs>>
    /\ MainOnly

\* main.rs 84-85, 141-167: the request of fetch_asn_prefixes ends, with an
\* error that `?` returns from main or with the prefix list that
\* expand_prefixes turns into the targets.  The client is built without a
\* timeout (main.rs 143-145): nothing obliges the request to end, and until it
\* does main stays at the await
FetchReturns ==
    /\ mainPc = "fetch"
    /\ LET ts == BuildTargets(margs)
       IN IF ts.tag = "Ok"
          THEN StartScan(ts.v)
          ELSE /\ mainPc' = "failed"
               /\ UNCHANGED <<concurrency, targets, si, sj, joinIdx, permits>>
    /\ UNCHANGED <<portset, output, tasks, upc, ulog, uret, probes, margs>>
    /\ MainOnly

MainNext ==
    \/ Setup
    \/ FetchReturns
    \/ Spawn
    \/ SpawnDone
    \/ \E u \in 1..MaxUnits : Acquire(u)
    \/ \E u \in 1..MaxUnits : Connect(u)
    \/ \E u \in 1..MaxUnits : Write(u)
    \/ \E u \in 1..MaxUnits : Read(u)
    \/ Join
    \/ MainReturn

MainSpec == MainInit /\ [][MainNext]_vars

(***************************************************************************)
(* Properties of the scheduler.                                            *)
(***************************************************************************)
Holders == {u \in Units : Holding(u)}
Done(u) == upc[u] = "done"
Pair(i, j) == [ip |-> targets[i], port |-> portset[j]]
Line(u) == [ip |-> tasks[u].ip, port |-> tasks[u].port]
Matched(u) == Done(u) /\ uret[u][1].tag = "Ok" /\ uret[u][1].val # <<>>
LinesOf(u) ==
    {k \in 1..Len(output) :
        /\ output[k].kind = "match"
        /\ [ip |-> output[k].ip, port |-> output[k].port] = Line(u)}
\* the tasks of the same address and port as u: u alone unless the target
\* list repeats the address
Twins(u) == {w \in Units : tasks[w] = tasks[u]}
\* a line of u's address and port that no other task of that pair accounts for
Printed(u) ==
    Cardinality(LinesOf(u)) > Cardinality({w \in Twins(u) \ {u} : Matched(w)})
Silent(u) == Done(u) /\ uret[u] = <<OkNone>> /\ ~Printed(u)
NetFailed(u) ==
    \/ ulog[u].conn \in {"refused", "timeout"}
    \/ ulog[u].rd \in {"eof", "err", "timeout"}

\* C1: in every reachable state at most `concurrency` tasks hold a permit of
\* the semaphore, whatever the interleaving of the tasks.
C1_AtMostCHolders == Cardinality(Holders) <= concurrency

\* C1 witness: the limit is reached while another task waits for a permit.
C1_Witness ==
    /\ concurrency >= 1
    /\ Cardinality(Holders) = concurrency
    /\ \E u \in Units : upc[u] = "acquire"

\* C2 (as claimed): under the fairness of the runtime every spawned task
\* eventually reaches its terminal state, for every accepted concurrency limit.
C2_EveryUnitTerminates ==
    <>(mainPc # "spawn" /\ \A u \in Units : Done(u))

\* C3 (as claimed): the spawn loops create exactly one task per pair of
\* targets x portset, no pair being probed twice,
\* each task calls check_webfig at most once (exactly once by the time main
\* returns), and a step of one task never changes, cancels or restarts another
\* task; a finished task stays finished with its result.
C3_State ==
    /\ \A u \in Units : probes[u] <= 1 /\ (Done(u) => probes[u] = 1)
    /\ \A i \in 1..Len(targets), j \in 1..Len(portset) :
          /\ Cardinality({u \in Units : tasks[u] = Pair(i, j)}) <= 1
          /\ mainPc # "spawn" =>
                Cardinality({u \in Units : tasks[u] = Pair(i, j)}) = 1
    /\ \A u \in Units :
          \E i \in 1..Len(targets), j \in 1..Len(portset) : tasks[u] = Pair(i, j)
    /\ mainPc = "done" => \A u \in Units : Done(u) /\ probes[u] = 1
C3_Step ==
    \A u \in Units :
        /\ (Done(u) => upc'[u] = "done" /\ uret'[u] = uret[u]
                         /\ probes'[u] = probes[u])
        /\ (upc'[u] # upc[u] =>
               \A w \in Units \ {u} :
                   /\ upc'[w] = upc[w] /\ uret'[w] = uret[w]
                   /\ probes'[w] = probes[w] /\ tasks'[w] = tasks[w])
C3_OneProbePerPair == [](C3_State) /\ [][C3_Step]_vars

\* C7 (as claimed): a timeout, refusal or I/O error at any stage, the write
\* included, leaves the task Silent.
C7_AnyErrorIsSilent ==
    \A u \in Units :
        (Done(u) /\ (NetFailed(u) \/ ulog[u].wr = "err")) => Silent(u)

\* C7 (amended): a failed or timed-out connect or read (a zero-byte read
\* included) leaves the task Silent with no output line; a failed write is
\* ignored and the task goes on to its read; check_webfig never returns Err,
\* no task ends in another way than by finishing, and main returns only when
\* every task of the cross product has finished.
C7_FailuresAreSilent ==
    /\ \A u \in Units :
          /\ upc[u] \in {"acquire", "connect", "write", "read", "done"}
          /\ Done(u) => /\ Len(uret[u]) = 1 /\ uret[u][1].tag = "Ok"
                        /\ (NetFailed(u) => Silent(u))
                        /\ (uret[u] = <<OkNone>> => ~Printed(u))
          /\ ulog[u].wr = "err" => upc[u] \in {"read", "done"}
    /\ mainPc = "done" =>
          /\ Len(tasks) = Len(targets) * Len(portset)
          /\ \A u \in Units : Done(u)

\* C7 witness: main has returned although one task timed out connecting and
\* another had its read fail after a failed write.
C7_Witness ==
    /\ mainPc = "done"
    /\ \E u, w \in Units :
          /\ ulog[u].conn = "timeout" /\ Silent(u)
          /\ ulog[w].wr = "err" /\ ulog[w].rd = "err" /\ Silent(w)

Ends(u) == ~Done(u) /\ upc'[u] = "done"

\* C14: a matching task has exactly one line in the output from the step in
\* which it ends, any other task has none; the output changes only by the
\* step that ends a matching task, which appends that task's line whatever
\* the other tasks are doing, so the lines stand in the order of completion.
\* (where the target list repeats an address the lines of a pair are counted
\* against the matching tasks of that pair: one line each)
C14_State ==
    \A u \in Units :
        Cardinality(LinesOf(u)) = Cardinality({w \in Twins(u) : Matched(w)})
C14_Step ==
    /\ output' # output =>
          \E u \in Units : Ends(u) /\ uret'[u][1].val # <<>>
    /\ \A u \in Units :
          Ends(u) =>
             output' = IF uret'[u][1].tag = "Ok" /\ uret'[u][1].val # <<>>
                       THEN Append(output, [kind |-> "match",
                                            ip |-> tasks[u].ip,
                                            port |-> tasks[u].port,
                                            prod |-> uret'[u][1].val[1]])
                       ELSE output
C14_EmittedOnCompletion == [](C14_State) /\ [][C14_Step]_vars

\* C14 witness: two lines are out, the one of the later-launched task first,
\* while a third task has not ended yet.
C14_Witness ==
    \E u, w, x \in Units :
        /\ u < w
        /\ Len(output) = Len(Banner) + 2
        /\ LinesOf(w) = {Len(Banner) + 1} /\ LinesOf(u) = {Len(Banner) + 2}
        /\ ~Done(x)

\* C15: check_webfig is called only by a task that holds a permit, a task
\* holds one permit from its acquire to its end and gives it back however it
\* ends; permits held plus permits free are `concurrency` in every state, and
\* when every task has ended all of them are free.
C15_State ==
    /\ permits >= 0
    /\ permits + Cardinality(Holders) = concurrency
    /\ \A u \in Units :
          /\ upc[u] = "acquire" => probes[u] = 0
          /\ probes[u] > 0 => upc[u] \in {"connect", "write", "read", "done"}
    /\ (\A u \in Units : Done(u)) => permits = concurrency
C15_Step ==
    \A u \in Units :
        /\ probes'[u] # probes[u] =>
              (upc[u] = "acquire" /\ permits > 0 /\ upc'[u] = "connect")
        /\ (upc[u] = "acquire" /\ upc'[u] # "acquire") =>
              (permits > 0 /\ permits' = permits - 1 /\ upc'[u] = "connect")
        /\ (Holding(u) /\ upc'[u] = "done") => permits' = permits + 1
        /\ (Holding(u) /\ upc'[u] # "done") => (Holding(u))'
C15_PermitsConserved == [](C15_State) /\ [][C15_Step]_vars

\* C15 witness: every task has ended, one on a refused connect, one on a read
\* timeout and one with a match, and all permits are free again.
C15_Witness ==
    /\ concurrency >= 1 /\ permits = concurrency
    /\ mainPc # "spawn" /\ \A u \in Units : Done(u)
    /\ \E u, w, x \in Units :
          /\ ulog[u].conn = "refused"
          /\ ulog[w].rd = "timeout"
          /\ Matched(x)

AllSpawned == Len(tasks) = Len(targets) * Len(portset)
AllTerminal == AllSpawned /\ \A u \in Units : Done(u)

\* C16: main has returned only in states where every task of the run has been
\* spawned and has ended; and from any state in which all of them have ended
\* main eventually returns, however the tasks ended.
C16_ReturnsAfterAll ==
    /\ [](mainPc = "done" => AllTerminal)
    /\ (AllTerminal ~> mainPc = "done")

\* C16 witness: main has returned from a run of three tasks, the first of
\* which ended on a read error and the last on a connect timeout.
C16_Witness ==
    /\ mainPc = "done"
    /\ Len(tasks) = 3
    /\ ulog[1].rd = "err" /\ ulog[3].conn = "timeout"
(***************************************************************************)
(* Properties of the detector.                                             *)
(***************************************************************************)
Signatures == {W_mikrotik, W_webfig, W_routeros}
ServerNamesVendor(r) ==
    contains(to_lowercase(from_utf8_lossy(r.server)), W_mikrotik)
BodyHasSignature(r) ==
    \E w \in Signatures :
        contains(to_lowercase(from_utf8_lossy(BodyBytes(r))), w)
QMatch == qpc = "done" /\ Prints(qret[1])

\* C4 (as claimed): a probe that received data is a Match if and only if the
\* Server header of the response names the vendor or the body of the response
\* contains one of the signatures.
C4_MatchIffSignature ==
    (qpc = "done" /\ qlog.rd = "data") =>
        (Prints(qret[1]) <=> (ServerNamesVendor(qresp) \/ BodyHasSignature(qresp)))

\* the order the claim describes: most specific pattern first
ClaimedOrder == <<"mikrotik_routeros_ver", "routeros_ver", "webfig", "mikrotik">>

\* C5 (as claimed): the label of a Match is the capture of the first matching
\* pattern of the most-specific-first list (longer product+version form, then
\* shorter product+version form, then the bare names), the generic label only
\* when none captures.
C5_MostSpecificLabel ==
    QMatch =>
        LET cap == FirstCapture(ClaimedOrder, to_lowercase(from_utf8_lossy(qbuf)))
        IN qret[1].val[1] = (IF cap = <<>> THEN GenericLabel ELSE cap[1])

\* the scheme order the claim describes for a port
SchemeOrder(port) ==
    IF port \in {443, 8443} THEN <<"https", "http">> ELSE <<"http", "https">>

\* C6 (as claimed): the two schemes are tried in the order of the port, the
\* second exactly when the first did not yield a Match.
C6_SchemeFallback ==
    qpc = "done" =>
        qattempts = (IF Prints(qret[1]) /\ Len(qattempts) = 1
                     THEN <<SchemeOrder(qport)[1]>> ELSE SchemeOrder(qport))
(***************************************************************************)
(* Properties of build_portset.                                            *)
(***************************************************************************)
StrictlyAscending(v) == \A i \in 1..(Len(v) - 1) : v[i] < v[i + 1]

\* C9 (as claimed): every port collection build_portset returns is strictly
\* ascending (hence duplicate free) and holds only ports of 1..65535.
C9_PortsValid ==
    (bpc = "done" /\ bret[1].tag = "Ok") =>
        /\ StrictlyAscending(bret[1].v)
        /\ \A i \in 1..Len(bret[1].v) : bret[1].v[i] \in 1..U16Max

\* C10 (as claimed): a --ports string with a range token lo-hi that is
\* reversed or has a zero bound makes build_portset fail.
C10_BadRangeRejected ==
    (bpc = "done" /\ ~bargs.all_ports /\ bargs.ports # <<>>) =>
        ((\E k \in RangeItems(bargs.ports[1]) :
             LET b == RangeBounds(bargs.ports[1], k)
             IN b[1] > b[2] \/ b[1] = 0 \/ b[2] = 0)
         => bret[1].tag = "Err")
(***************************************************************************)
(* Properties of expand_ipv4_range.                                        *)
(***************************************************************************)
\* start + n as the claim counts it: no address lies above 255.255.255.255
RECURSIVE AddrPlus(_, _)
AddrPlus(a, n) ==
    IF n = 0 THEN <<a>>
    ELSE IF a = AddrMax THEN <<>>
    ELSE AddrPlus(AddrInc(a), n - 1)

\* C8 (as claimed): for start <= end the walk yields start, start+1, ... in
\* ascending order, never more than end - start + 1 addresses, and returns
\* them with end as the last one; for start > end it fails with no address.
\* (Stated for the ranges whose end - start + 1 addresses the Vec has room
\* for.)
C8_RangeExact ==
    (rstart # <<>> /\ rend # <<>> /\ Fits(rstart, rend, rcap)) =>
        IF U32Le(rstart, rend)
        THEN /\ rstatus \in {"none", "ok"}
             /\ \A i \in 1..Len(rv) :
                   /\ AddrPlus(rstart, i - 1) = <<rv[i]>>
                   /\ U32Le(rv[i], rend)
             /\ rstatus = "ok" => (rv # <<>> /\ rv[Len(rv)] = rend)
        ELSE rpc = "done" /\ rstatus = "err" /\ rv = <<>>

\* C17 (as claimed): a walk whose end is 255.255.255.255 never overflows its
\* counter and never wraps it to 0.0.0.0: no address is pushed after
\* 255.255.255.255, and the walk returns with 255.255.255.255 as the last one.
\* (Stated for the ranges whose end - start + 1 addresses the Vec has room
\* for.)
C17_SaturatesAtTop ==
    (rend = AddrMax /\ U32Le(rstart, rend) /\ Fits(rstart, rend, rcap)) =>
        /\ rstatus \notin {"panic", "abort"}
        /\ \A i \in 1..Len(rv) : rv[i] = AddrMax => i = Len(rv)
        /\ (rv # <<>> /\ rv[Len(rv)] = AddrMax) =>
              (ra # AddrZero /\ rpc = "done" /\ rstatus = "ok")
(***************************************************************************)
(* Properties of expand_prefixes.                                          *)
(***************************************************************************)
NoDuplicates(v) == \A i, j \in 1..Len(v) : v[i] = v[j] => i = j

\* number of hosts of a prefix length under the host policy of hosts()
HostCount(len) ==
    IF len = 32 THEN 1 ELSE IF len = 31 THEN 2 ELSE Pow2(32 - len) - 2

\* the first n addresses of the walk from a to last
RECURSIVE TakeHosts(_, _, _)
TakeHosts(a, last, n) ==
    IF n = 0 \/ U32Gt(a, last) THEN <<>>
    ELSE IF a = last THEN <<a>>
    ELSE <<a>> \o TakeHosts(AddrInc(a), last, n - 1)

\* C11 (as claimed): the collection expand_prefixes returns holds every
\* address once, also when prefixes overlap or repeat.
C11_TargetsDeduplicated == epc = "done" => NoDuplicates(eret)

SingleV4 == Len(eprefixes) = 1 /\ eprefixes[1].v = 4

\* C12 (as claimed): a single IPv4 CIDR expanded without a sampling request
\* (per-prefix left at its default) yields exactly the hosts of its prefix
\* length, without duplicates.
C12_FullByDefault ==
    (epc = "done" /\ SingleV4 /\ eper = DefaultPerPrefix) =>
        /\ Len(eret) = HostCount(eprefixes[1].len)
        /\ NoDuplicates(eret)

\* C18 (as claimed): every IPv4 prefix adds its first min(N, host count)
\* hosts in sampled mode, for every N >= 0, and all its hosts in full mode;
\* any other prefix adds nothing.
RECURSIVE ClaimedIps(_, _, _)
ClaimedIps(prefixes, per, all) ==
    IF prefixes = <<>> THEN <<>>
    ELSE LET p == Head(prefixes)
             own == IF p.v # 4 THEN <<>>
                    ELSE IF all THEN PushAll(FirstHost(p), LastHost(p))
                    ELSE TakeHosts(FirstHost(p), LastHost(p), per)
         IN own \o ClaimedIps(Tail(prefixes), per, all)
C18_FirstNHosts == epc = "done" => eret = ClaimedIps(eprefixes, eper, eall)
(***************************************************************************)
(* Properties of main's exit.                                              *)
(***************************************************************************)
\* the process exit status: Ok(()) from main is 0, an Err or a panic is not
ExitedZero == mainPc = "done"
ExitedNonzero == mainPc = "failed"
Scanning == mainPc \in {"spawn", "join", "done"}

\* C13 (as claimed): a run whose target set or port set comes out empty ends
\* nonzero like any other invalid input, no unit is started in a run that
\* ends nonzero, and a run exits zero only after all its units have been
\* launched and have ended.
C13_EmptySetsRejected ==
    /\ Scanning => (targets # <<>> /\ portset # <<>>)
    /\ ExitedNonzero => tasks = <<>>
    /\ ExitedZero => /\ Len(tasks) = Len(targets) * Len(portset)
                     /\ \A u \in Units : Done(u)
====
